---- MODULE Spec2Model ----
(***************************************************************************)
(* The paste / keystroke interception pipeline of the commently editor:    *)
(* the URL recognizer (embed.ts), the embed paste and Enter handlers       *)
(* (embed.ts), the markdown paste handler, the heading normalizer and the  *)
(* embed edit panel (editor.ts), and the insert-embed button (main.ts);    *)
(* with them the markdown copy handler (editor.ts) and the text sanitizer  *)
(* it passes the serializer's output through (utils/string.ts).            *)
(*                                                                         *)
(* A string is a sequence of one-character strings, except in the          *)
(* sanitizer, where it is a sequence of UTF-16 code units.  A document is  *)
(* a sequence of blocks addressed by ProseMirror's flat integer positions. *)
(* A copy event is taken to carry a clipboard, as the browser's do.        *)
(* The plugins StarterKit brings (its own paste and key handling, the      *)
(* trailing paragraph it keeps) are outside the repository: the handler    *)
(* chain ends in them, and what they do to the document is not modelled.   *)
(***************************************************************************)
EXTENDS Integers, Sequences, FiniteSets, TLC

(***************************************************************************)
(* Strings                                                                 *)
(***************************************************************************)

\* JavaScript's null, where a string is expected.
Null == <<"null">>

\* The characters String.prototype.trim and the regex class \s treat as white space.
WhiteSpace == {" ", "\n", "\t", "\r"}

IsSpace(c) == c \in WhiteSpace

SetMin(S) == CHOOSE x \in S : \A y \in S : x <= y

SetMax(S) == CHOOSE x \in S : \A y \in S : x >= y

Trim(t) ==
  LET keep == {i \in 1..Len(t) : ~IsSpace(t[i])}
  IN  IF keep = {} THEN <<>> ELSE SubSeq(t, SetMin(keep), SetMax(keep))

\* /\s/.test(t)
HasSpace(t) == \E i \in 1..Len(t) : IsSpace(t[i])

\* t.indexOf("\n") >= 0
HasNewline(t) == \E i \in 1..Len(t) : t[i] = "\n"

\* p occurs in t at index i.
StartsWithAt(t, i, p) ==
  /\ i >= 1
  /\ i + Len(p) - 1 <= Len(t)
  /\ SubSeq(t, i, i + Len(p) - 1) = p

HTTP == <<"h", "t", "t", "p">>

HTTP_SLASHES == <<"h", "t", "t", "p", ":", "/", "/">>

HTTPS_SLASHES == <<"h", "t", "t", "p", "s", ":", "/", "/">>

\* Length of the match of https?:\/\/ at index i of t, 0 when there is none.
SchemeLenAt(t, i) ==
  IF StartsWithAt(t, i, HTTPS_SLASHES) THEN 8
  ELSE IF StartsWithAt(t, i, HTTP_SLASHES) THEN 7
  ELSE 0

\* Last index of the maximal run of non-space characters that starts at j.
RunEnd(t, j) ==
  SetMax({k \in j..Len(t) : \A m \in j..k : ~IsSpace(t[m])})

\* https?:\/\/[^\s]+ matches t at index i.
UrlMatchAt(t, i) ==
  LET n == SchemeLenAt(t, i)
  IN  /\ n > 0
      /\ i + n <= Len(t)
      /\ ~IsSpace(t[i + n])

\* The text of that (greedy) match.
UrlMatchText(t, i) == SubSeq(t, i, RunEnd(t, i + SchemeLenAt(t, i)))

(***************************************************************************)
(* URL recognizer (embed.ts)                                               *)
(***************************************************************************)

\* URL_PATTERN.test(raw): the whole string is one https?:// token.
\* Fault injection: the pattern without its end anchor.
UrlPatternUnanchored(raw) == UrlMatchAt(raw, 1)

URL_PATTERN(raw) ==
  /\ UrlMatchAt(raw, 1)
  /\ ~HasSpace(raw)

extractUrlFromPastedText(text) ==
  LET trimmed == Trim(text)
  IN  IF trimmed = <<>> THEN Null
      ELSE IF UrlMatchAt(trimmed, 1) THEN UrlMatchText(trimmed, 1)
      ELSE Null

extractUrlAnywhereInText(text) ==
  LET trimmed == Trim(text)
      hits == {i \in 1..Len(trimmed) : UrlMatchAt(trimmed, i)}
  IN  IF trimmed = <<>> THEN Null
      ELSE IF hits # {} THEN UrlMatchText(trimmed, SetMin(hits))
      ELSE Null

\* Characters that end the authority of a URL with a special scheme.
AuthorityEnd == {"/", "#", "?", "\\"}

\* Index of the first character of t, at or after i, that is in S; Len(t)+1 when none.
FirstIn(t, i, S) ==
  LET hits == {k \in i..Len(t) : t[k] \in S}
  IN  IF hits = {} THEN Len(t) + 1 ELSE SetMin(hits)

\* Index of the first character of t, at or after i, that is not in S.
FirstNotIn(t, i, S) ==
  LET hits == {k \in i..Len(t) : t[k] \notin S}
  IN  IF hits = {} THEN Len(t) + 1 ELSE SetMin(hits)

NoUrl == [ok |-> FALSE, href |-> Null]

\* new URL(s).href for s over the letters h t p s a and : / * # (no digits, dots,
\* query or credentials): the scheme, the slashes after it skipped, the host up to
\* the first of / # ? \, an empty port dropped, an empty path written as "/", the
\* fragment kept.  A missing host or a port that is not a number is a TypeError.
UrlHref(s) ==
  LET scheme == IF StartsWithAt(s, 1, HTTP \o <<"s", ":">>) THEN HTTP \o <<"s">>
                ELSE IF StartsWithAt(s, 1, HTTP \o <<":">>) THEN HTTP
                ELSE <<>>
      a0     == FirstNotIn(s, Len(scheme) + 2, {"/", "\\"})
      a1     == FirstIn(s, a0, AuthorityEnd)
      auth   == SubSeq(s, a0, a1 - 1)
      colon  == FirstIn(auth, 1, {":"})
      host   == SubSeq(auth, 1, colon - 1)
      port   == SubSeq(auth, colon + 1, Len(auth))
      f0     == FirstIn(s, a1, {"#"})
      path   == IF a1 < f0 THEN SubSeq(s, a1, f0 - 1) ELSE <<"/">>
      frag   == SubSeq(s, f0, Len(s))
  IN  IF scheme = <<>> \/ host = <<>> \/ port # <<>> THEN NoUrl
      ELSE [ok |-> TRUE, href |-> scheme \o <<":", "/", "/">> \o host \o path \o frag]

NoEmbedUrl == [ok |-> FALSE, embedUrl |-> Null, provider |-> "none"]

parseEmbedUrl(input) ==
  LET raw == Trim(input)
      url == UrlHref(IF StartsWithAt(raw, 1, HTTP) THEN raw ELSE HTTPS_SLASHES \o raw)
  IN  IF raw = <<>> THEN NoEmbedUrl
      ELSE IF ~URL_PATTERN(raw) THEN NoEmbedUrl
      ELSE IF url.ok THEN [ok |-> TRUE, embedUrl |-> url.href, provider |-> "generic"]
      ELSE NoEmbedUrl

\* A text/html payload: what its markup is, and the href of each anchor in
\* document order.
NoHtml == [raw |-> "empty", hrefs |-> <<>>]

\* The first anchor whose href starts with http:// or https://, trimmed.
extractUrlFromHtml(html) ==
  LET hits == {i \in 1..Len(html.hrefs) : SchemeLenAt(html.hrefs[i], 1) > 0}
  IN  IF html.raw # "markup" THEN Null
      ELSE IF hits = {} THEN Null
      ELSE Trim(html.hrefs[SetMin(hits)])

(***************************************************************************)
(* Document tree (the document engine's data model, as the handlers use it) *)
(***************************************************************************)

Para(t) ==
  [type |-> "paragraph", text |-> t, level |-> 0, kids |-> <<>>,
   src |-> Null, provider |-> "none", originalUrl |-> Null]

Heading(l, t) ==
  [type |-> "heading", text |-> t, level |-> l, kids |-> <<>>,
   src |-> Null, provider |-> "none", originalUrl |-> Null]

Container(name, ks) ==
  [type |-> name, text |-> <<>>, level |-> 0, kids |-> ks,
   src |-> Null, provider |-> "none", originalUrl |-> Null]

Rule ==
  [type |-> "horizontalRule", text |-> <<>>, level |-> 0, kids |-> <<>>,
   src |-> Null, provider |-> "none", originalUrl |-> Null]

\* nodeType.create({src, provider, originalUrl})
EmbedNode(s, p, o) ==
  [type |-> "embed", text |-> <<>>, level |-> 0, kids |-> <<>>,
   src |-> s, provider |-> p, originalUrl |-> o]

TextblockTypes == {"paragraph", "heading"}

\* Block leaves: the embed (atom: true) and the horizontal rule.
AtomTypes == {"embed", "horizontalRule"}

NESTED_BLOCK_NAMES == {"blockquote", "bulletList", "orderedList", "listItem"}

RECURSIVE NodeSize(_), FragSize(_)

\* node.nodeSize
NodeSize(b) ==
  IF b.type \in AtomTypes THEN 1
  ELSE IF b.type \in TextblockTypes THEN Len(b.text) + 2
  ELSE FragSize(b.kids) + 2

\* fragment.size
FragSize(ks) ==
  IF ks = <<>> THEN 0 ELSE NodeSize(Head(ks)) + FragSize(Tail(ks))

\* node.content.size
ContentSize(b) == NodeSize(b) - (IF b.type \in AtomTypes THEN 1 ELSE 2)

\* Offset of child i in its parent's content.
Offset(ks, i) == FragSize(SubSeq(ks, 1, i - 1))

RECURSIVE TextContent(_), FragText(_)

\* node.textContent: the text of all descendants, nothing between blocks.
TextContent(b) ==
  IF b.type \in TextblockTypes THEN b.text ELSE FragText(b.kids)

FragText(ks) ==
  IF ks = <<>> THEN <<>> ELSE TextContent(Head(ks)) \o FragText(Tail(ks))

RECURSIVE Ancestors(_, _, _)

\* ResolvedPos.resolve: the nodes around offset po of the content ks, which starts
\* at position base; outermost first, each with the positions before and after it.
Ancestors(ks, po, base) ==
  LET hits == {i \in 1..Len(ks) : Offset(ks, i) + NodeSize(ks[i]) >= po}
  IN  IF po = 0 \/ hits = {} THEN <<>>
      ELSE LET i   == SetMin(hits)
               cur == Offset(ks, i)
               end == cur + NodeSize(ks[i])
           IN  IF end = po THEN <<>>
               ELSE <<[node |-> ks[i], before |-> base + cur, after |-> base + end]>>
                    \o (IF ks[i].type \in TextblockTypes THEN <<>>
                        ELSE Ancestors(ks[i].kids, po - cur - 1, base + cur + 1))

\* doc.resolve(pos): path[d] is $pos.node(d), with $pos.before(d) and $pos.after(d).
Resolve(d, pos) == [pos |-> pos, path |-> Ancestors(d, pos, 0)]

Depth(rp) == Len(rp.path)

\* $pos.parent.textContent
ParentText(d, rp) ==
  IF Depth(rp) = 0 THEN FragText(d) ELSE TextContent(rp.path[Depth(rp)].node)

\* $pos.parent.content.size
ParentContentSize(d, rp) ==
  IF Depth(rp) = 0 THEN FragSize(d) ELSE ContentSize(rp.path[Depth(rp)].node)

\* Fault injection: the nesting test left out.
NeverNested(rp) == FALSE

\* isInsideNestedBlock: an ancestor at depth 1..$pos.depth is a quote, list or item.
isInsideNestedBlock(rp) ==
  \E dp \in 1..Depth(rp) : rp.path[dp].node.type \in NESTED_BLOCK_NAMES

RECURSIVE LeavesIn(_, _)

\* Every textblock and atom of the content ks (starting at base), with its positions.
LeavesIn(ks, base) ==
  UNION {LET b == ks[i]
             p == base + Offset(ks, i)
         IN  IF b.type \in TextblockTypes \/ b.type \in AtomTypes
             THEN {[before |-> p, after |-> p + NodeSize(b), node |-> b]}
             ELSE LeavesIn(b.kids, p + 1)
         : i \in 1..Len(ks)}

Leaves(d) == LeavesIn(d, 0)

RECURSIVE ReplaceBlocks(_, _, _, _, _)

\* tr.replaceWith(from, to, new) for whole blocks: the children of ks (starting at
\* base) lying between from and to give way to new.  When from and to are inside
\* one child the replacement happens in that child's content; a child the range
\* only partly covers goes as a whole.
ReplaceBlocks(ks, base, from, to, new) ==
  LET inside == {i \in 1..Len(ks) :
                   /\ ks[i].type \notin TextblockTypes \cup AtomTypes
                   /\ base + Offset(ks, i) < from
                   /\ to < base + Offset(ks, i) + NodeSize(ks[i])}
      nb == Cardinality({i \in 1..Len(ks) : base + Offset(ks, i) + NodeSize(ks[i]) <= from})
      na == Cardinality({i \in 1..Len(ks) : base + Offset(ks, i) >= to})
  IN  IF inside # {}
      THEN LET i == SetMin(inside)
           IN  [ks EXCEPT ![i].kids =
                  ReplaceBlocks(ks[i].kids, base + Offset(ks, i) + 1, from, to, new)]
      ELSE SubSeq(ks, 1, nb) \o new \o SubSeq(ks, Len(ks) - na + 1, Len(ks))

(***************************************************************************)
(* Selections                                                              *)
(***************************************************************************)

TextSel(a, h) == [kind |-> "text", anchor |-> a, head |-> h]

NodeSel(d, p) == [kind |-> "node", anchor |-> p, head |-> p + 1]

AllSel(d) == [kind |-> "all", anchor |-> 0, head |-> FragSize(d)]

SelFrom(s) == IF s.anchor <= s.head THEN s.anchor ELSE s.head

SelTo(s) == IF s.anchor <= s.head THEN s.head ELSE s.anchor

\* Selection.near(doc.resolve(pos), bias): the cursor itself inside a textblock,
\* else the nearest textblock or selectable atom on the side of bias, else on the
\* other side, else the whole document.
Near(d, pos, bias) ==
  LET ls   == Leaves(d)
      here == {l \in ls : l.node.type \in TextblockTypes /\ l.before < pos /\ pos < l.after}
      fwd  == {l \in ls : l.before >= pos}
      bwd  == {l \in ls : l.after <= pos}
      first == CHOOSE l \in fwd : \A m \in fwd : l.before <= m.before
      last  == CHOOSE l \in bwd : \A m \in bwd : l.after >= m.after
      atF == IF first.node.type \in AtomTypes THEN NodeSel(d, first.before)
             ELSE TextSel(first.before + 1, first.before + 1)
      atB == IF last.node.type \in AtomTypes THEN NodeSel(d, last.before)
             ELSE TextSel(last.after - 1, last.after - 1)
  IN  IF here # {} THEN TextSel(pos, pos)
      ELSE IF bias > 0 /\ fwd # {} THEN atF
      ELSE IF bias > 0 /\ bwd # {} THEN atB
      ELSE IF bias <= 0 /\ bwd # {} THEN atB
      ELSE IF fwd # {} THEN atF
      ELSE AllSel(d)

\* Selection.atStart(doc)
AtStart(d) == Near(d, 0, 1)

\* Where position pos goes when the range from..to is replaced by size new
\* positions (StepMap.map with association 1).
MapPos(pos, st) ==
  IF pos < st.from THEN pos
  ELSE IF pos <= st.to
       THEN IF st.from < st.to /\ pos = st.from THEN st.from ELSE st.from + st.size
  ELSE pos + st.size - (st.to - st.from)

\* The step removed the token after pos (MapResult.deleted with association 1).
MapDeleted(pos, st) == st.from <= pos /\ pos < st.to

RECURSIVE MapPosAll(_, _), MapDeletedAll(_, _)

MapPosAll(pos, steps) ==
  IF steps = <<>> THEN pos ELSE MapPosAll(MapPos(pos, Head(steps)), Tail(steps))

MapDeletedAll(pos, steps) ==
  IF steps = <<>> THEN FALSE
  ELSE MapDeleted(pos, Head(steps)) \/ MapDeletedAll(MapPos(pos, Head(steps)), Tail(steps))

InTextblock(d, pos) ==
  \E l \in Leaves(d) : l.node.type \in TextblockTypes /\ l.before < pos /\ pos < l.after

\* selection.map(tr.doc, tr.mapping): the selection a transaction leaves when it
\* sets none itself; d is the document after the steps.
MapSelection(d, s, steps) ==
  LET h == MapPosAll(s.head, steps)
      a == MapPosAll(s.anchor, steps)
  IN  CASE s.kind = "all"  -> AllSel(d)
        [] s.kind = "node" ->
             IF MapDeletedAll(s.anchor, steps) THEN Near(d, a, 1) ELSE NodeSel(d, a)
        [] OTHER ->
             IF ~InTextblock(d, h) THEN Near(d, h, 1)
             ELSE TextSel(IF InTextblock(d, a) THEN a ELSE h, h)

(***************************************************************************)
(* Markdown likelihood heuristic (editor.ts)                               *)
(***************************************************************************)

\* ^ under the m flag: the start of the text or of a line.
LineStart(t, i) == i = 1 \/ t[i - 1] \in {"\n", "\r"}

Digits == {"0", "1", "2", "3", "4", "5", "6", "7", "8", "9"}

\* /^#{1,6}\s+/m
MdHeading(t) ==
  \E i \in 1..Len(t) : \E k \in 1..6 :
     /\ LineStart(t, i)
     /\ i + k <= Len(t)
     /\ \A m \in i..(i + k - 1) : t[m] = "#"
     /\ IsSpace(t[i + k])

\* /cc[^c]+cc/ for the marker c (bold ** or __)
MdBold(t, c) ==
  \E i \in 1..Len(t) : \E j \in (i + 3)..(Len(t) - 1) :
     /\ t[i] = c /\ t[i + 1] = c
     /\ t[j] = c /\ t[j + 1] = c
     /\ \A m \in (i + 2)..(j - 1) : t[m] # c

\* /(?<!c)c[^c]+c(?!c)/ for the marker c (italic * or _)
MdItalic(t, c) ==
  \E i \in 1..Len(t) : \E j \in (i + 2)..Len(t) :
     /\ t[i] = c /\ (i = 1 \/ t[i - 1] # c)
     /\ t[j] = c /\ (j = Len(t) \/ t[j + 1] # c)
     /\ \A m \in (i + 1)..(j - 1) : t[m] # c

\* /^[\s]*[-*]\s+/m or /^[\s]*\d+\.\s+/m
MdList(t) ==
  \E i \in 1..Len(t) : \E k \in i..Len(t) :
     /\ LineStart(t, i)
     /\ \A m \in i..(k - 1) : IsSpace(t[m])
     /\ \/ /\ t[k] \in {"-", "*"}
           /\ k + 1 <= Len(t) /\ IsSpace(t[k + 1])
        \/ \E e \in k..Len(t) :
              /\ \A m \in k..e : t[m] \in Digits
              /\ e + 2 <= Len(t) /\ t[e + 1] = "." /\ IsSpace(t[e + 2])

\* /\[[^\]]+\]\([^)]+\)/
MdLink(t) ==
  \E a \in 1..Len(t) : \E b \in (a + 2)..Len(t) : \E e \in (b + 3)..Len(t) :
     /\ t[a] = "[" /\ t[b] = "]" /\ b + 1 <= Len(t) /\ t[b + 1] = "("
     /\ t[e] = ")"
     /\ \A m \in (a + 1)..(b - 1) : t[m] # "]"
     /\ \A m \in (b + 2)..(e - 1) : t[m] # ")"

\* The backquote character (the one character this module cannot write in a string).
BACKQUOTE == "backquote"

\* Inline code: a backquote, one or more other characters, a backquote.
MdCode(t) ==
  \E i \in 1..Len(t) : \E j \in (i + 2)..Len(t) :
     /\ t[i] = BACKQUOTE /\ t[j] = BACKQUOTE
     /\ \A m \in (i + 1)..(j - 1) : t[m] # BACKQUOTE

\* /^>\s+/m
MdQuote(t) ==
  \E i \in 1..Len(t) :
     LineStart(t, i) /\ t[i] = ">" /\ i + 1 <= Len(t) /\ IsSpace(t[i + 1])

FENCE == <<BACKQUOTE, BACKQUOTE, BACKQUOTE>>

\* A line starting with three backquotes, and three more anywhere after them.
MdFence(t) ==
  \E i \in 1..Len(t) : \E j \in (i + 3)..Len(t) :
     LineStart(t, i) /\ StartsWithAt(t, i, FENCE) /\ StartsWithAt(t, j, FENCE)

looksLikeMarkdown(text) ==
  LET t == Trim(text)
  IN  IF t = <<>> \/ Len(t) < 2 THEN FALSE
      ELSE \/ MdHeading(t)
           \/ MdBold(t, "*") \/ MdBold(t, "_")
           \/ MdItalic(t, "*") \/ MdItalic(t, "_")
           \/ MdList(t)
           \/ MdLink(t)
           \/ MdCode(t)
           \/ MdQuote(t)
           \/ MdFence(t)

(***************************************************************************)
(* Heading normalizer (editor.ts)                                          *)
(***************************************************************************)

DEFAULT_MARKDOWN_PASTE_HEADING_LEVELS == <<2, 3, 4, 5, 6>>

SeqRange(q) == {q[i] : i \in 1..Len(q)}

Abs(n) == IF n < 0 THEN -n ELSE n

RECURSIVE NearestOfLast(_, _, _)

\* Fault injection: <= for <, so that of two nearest levels the later one wins.
NearestOfLast(prev, rest, level) ==
  IF rest = <<>> THEN prev
  ELSE NearestOfLast(IF Abs(Head(rest) - level) <= Abs(prev - level) THEN Head(rest) ELSE prev,
                     Tail(rest), level)

RECURSIVE NearestOf(_, _, _)

\* allowed.reduce((prev, curr) => |curr - level| < |prev - level| ? curr : prev)
NearestOf(prev, rest, level) ==
  IF rest = <<>> THEN prev
  ELSE NearestOf(IF Abs(Head(rest) - level) < Abs(prev - level) THEN Head(rest) ELSE prev,
                 Tail(rest), level)

clampHeadingLevel(level, allowed) ==
  IF Len(allowed) = 0 THEN level
  ELSE IF level \in SeqRange(allowed) THEN level
  ELSE IF level < SetMin(SeqRange(allowed)) THEN SetMin(SeqRange(allowed))
  ELSE IF level > SetMax(SeqRange(allowed)) THEN SetMax(SeqRange(allowed))
  ELSE NearestOf(Head(allowed), Tail(allowed), level)

\* Fault injection: the children not visited.
NormalizeTopLevelOnly(ks, allowedLevels) ==
  [i \in 1..Len(ks) |->
     IF ks[i].type = "heading"
     THEN [ks[i] EXCEPT !.level = clampHeadingLevel(ks[i].level, allowedLevels)]
     ELSE ks[i]]

RECURSIVE normalizeHeadingLevelsInContent(_, _)

\* Applied to the children of the parsed doc node: every heading, at any depth,
\* gets its level clamped.
normalizeHeadingLevelsInContent(ks, allowedLevels) ==
  [i \in 1..Len(ks) |->
     LET b == IF ks[i].type = "heading"
              THEN [ks[i] EXCEPT !.level = clampHeadingLevel(ks[i].level, allowedLevels)]
              ELSE ks[i]
     IN  [b EXCEPT !.kids = normalizeHeadingLevelsInContent(b.kids, allowedLevels)]]

RECURSIVE HeadingsUpTo(_, _, _)

\* Fault injection: the headings at the minimum level collected too.
HeadingsUpTo(ks, base, minLevel) ==
  IF ks = <<>> THEN <<>>
  ELSE LET b == Head(ks)
           here == IF b.type = "heading" /\ b.level <= minLevel THEN <<base>> ELSE <<>>
       IN  here \o HeadingsUpTo(b.kids, base + 1, minLevel)
                \o HeadingsUpTo(Tail(ks), base + NodeSize(b), minLevel)

RECURSIVE HeadingsBelow(_, _, _)

\* doc.descendants: the positions of the headings whose level is below minLevel,
\* in document order.
HeadingsBelow(ks, base, minLevel) ==
  IF ks = <<>> THEN <<>>
  ELSE LET b == Head(ks)
           here == IF b.type = "heading" /\ b.level < minLevel THEN <<base>> ELSE <<>>
       IN  here \o HeadingsBelow(b.kids, base + 1, minLevel)
                \o HeadingsBelow(Tail(ks), base + NodeSize(b), minLevel)

RECURSIVE SortDescending(_)

\* updates.sort((a, b) => b.pos - a.pos)
SortDescending(q) ==
  IF q = <<>> THEN <<>>
  ELSE LET m == SetMax(SeqRange(q))
           i == SetMin({k \in 1..Len(q) : q[k] = m})
       IN  <<m>> \o SortDescending(SubSeq(q, 1, i - 1) \o SubSeq(q, i + 1, Len(q)))

RECURSIVE SetLevelAt(_, _, _, _)

\* tr.setNodeMarkup(pos, undefined, {...node.attrs, level}) on the node at pos.
SetLevelAt(ks, base, pos, level) ==
  [i \in 1..Len(ks) |->
     LET p == base + Offset(ks, i)
     IN  IF p = pos THEN [ks[i] EXCEPT !.level = level]
         ELSE IF p < pos /\ pos < p + NodeSize(ks[i])
              THEN [ks[i] EXCEPT !.kids = SetLevelAt(ks[i].kids, p + 1, pos, level)]
         ELSE ks[i]]

RECURSIVE ApplyLevelUpdates(_, _, _)

ApplyLevelUpdates(d, updates, level) ==
  IF updates = <<>> THEN d
  ELSE ApplyLevelUpdates(SetLevelAt(d, 0, Head(updates), level), Tail(updates), level)

\* Fault injection: one transaction dispatched for each heading.
NormalizePerHeading(d, s, allowedLevels) ==
  LET minLevel == IF Len(allowedLevels) > 0 THEN SetMin(SeqRange(allowedLevels)) ELSE 1
      updates  == SortDescending(HeadingsBelow(d, 0, minLevel))
  IN  [k \in 1..Len(updates) |->
         [doc |-> ApplyLevelUpdates(d, SubSeq(updates, 1, k), minLevel), sel |-> s]]

\* Fault injection: every heading rewritten, whatever its level.
NormalizeEveryHeading(d, s, allowedLevels) ==
  LET minLevel == IF Len(allowedLevels) > 0 THEN SetMin(SeqRange(allowedLevels)) ELSE 1
      updates  == SortDescending(HeadingsBelow(d, 0, minLevel + 6))
  IN  IF Len(updates) = 0 THEN <<>>
      ELSE <<[doc |-> ApplyLevelUpdates(d, updates, minLevel), sel |-> s]>>

\* The transactions normalizeDocHeadingLevels dispatches: none, or one.
normalizeDocHeadingLevels(d, s, allowedLevels) ==
  LET minLevel == IF Len(allowedLevels) > 0 THEN SetMin(SeqRange(allowedLevels)) ELSE 1
      updates  == SortDescending(HeadingsBelow(d, 0, minLevel))
  IN  IF Len(updates) = 0 THEN <<>>
      ELSE <<[doc |-> ApplyLevelUpdates(d, updates, minLevel), sel |-> s]>>

(***************************************************************************)
(* Commands of the document engine the handlers call                       *)
(***************************************************************************)

\* Selection.atEnd(doc)
AtEnd(d) == Near(d, FragSize(d), -1)

RECURSIVE ReplaceStart(_, _, _, _)

\* The position at which ReplaceBlocks(ks, base, from, to, new) puts new.
ReplaceStart(ks, base, from, to) ==
  LET inside == {i \in 1..Len(ks) :
                   /\ ks[i].type \notin TextblockTypes \cup AtomTypes
                   /\ base + Offset(ks, i) < from
                   /\ to < base + Offset(ks, i) + NodeSize(ks[i])}
      nb == Cardinality({i \in 1..Len(ks) : base + Offset(ks, i) + NodeSize(ks[i]) <= from})
  IN  IF inside # {}
      THEN LET i == SetMin(inside)
           IN  ReplaceStart(ks[i].kids, base + Offset(ks, i) + 1, from, to)
      ELSE base + Offset(ks, nb + 1)

\* Blocks put in place of from..to.  A position inside a textblock splits it, and
\* an empty part of it is dropped (so an empty textblock is replaced); any other
\* range gives way block by block.  Yields the new document, the range replaced,
\* the size of what replaced it, and the position after the blocks.
Splice(d, from, to, blocks) ==
  LET host   == {l \in Leaves(d) :
                   l.node.type \in TextblockTypes /\ l.before < from /\ from < l.after}
      cursor == from = to /\ host # {}
      l      == CHOOSE h \in host : TRUE
      off    == from - l.before - 1
      left   == IF cursor /\ off > 0
                THEN <<[l.node EXCEPT !.text = SubSeq(l.node.text, 1, off)]>> ELSE <<>>
      right  == IF cursor /\ off < Len(l.node.text)
                THEN <<[l.node EXCEPT !.text = SubSeq(l.node.text, off + 1, Len(l.node.text))]>>
                ELSE <<>>
      rf     == IF cursor THEN l.before ELSE from
      rt     == IF cursor THEN l.after ELSE to
  IN  [doc  |-> ReplaceBlocks(d, 0, rf, rt, left \o blocks \o right),
       from |-> rf,
       to   |-> rt,
       size |-> FragSize(left \o blocks \o right),
       end  |-> ReplaceStart(d, 0, rf, rt) + FragSize(left \o blocks)]

\* commands.insertContent(blocks): the blocks take the place of the selection, and
\* the selection goes to the end of what was inserted.
insertContent(d, s, blocks) ==
  LET r == Splice(d, SelFrom(s), SelTo(s), blocks)
  IN  [doc |-> r.doc, sel |-> Near(r.doc, r.end, -1)]

\* commands.insertContentAt(pos, blocks): the blocks go in at pos, and the selection
\* is carried through the change.
insertContentAt(d, s, pos, blocks) ==
  LET r == Splice(d, pos, pos, blocks)
  IN  [doc |-> r.doc,
       sel |-> MapSelection(r.doc, s, <<[from |-> r.from, to |-> r.to, size |-> r.size]>>)]

\* The positions of the embed nodes of the content ks.
EmbedsIn(ks, base) ==
  {l.before : l \in {m \in LeavesIn(ks, base) : m.node.type = "embed"}}

\* The embed nodes doc.nodesBetween(from, to) visits.
EmbedsBetween(d, from, to) == {q \in EmbedsIn(d, 0) : from <= q /\ q < to}

\* editor.isActive("embed"): embed nodes cover the whole selection.
isActiveEmbed(d, s) ==
  LET n == Cardinality(EmbedsBetween(d, SelFrom(s), SelTo(s)))
  IN  IF SelFrom(s) = SelTo(s) THEN n > 0 ELSE n >= SelTo(s) - SelFrom(s)

RECURSIVE SetEmbedAttrs(_, _, _, _, _)

\* commands.updateAttributes("embed", attrs): every embed in from..to gets attrs.
SetEmbedAttrs(ks, base, from, to, attrs) ==
  [i \in 1..Len(ks) |->
     LET q == base + Offset(ks, i)
     IN  IF ks[i].type = "embed" /\ from <= q /\ q < to
         THEN [ks[i] EXCEPT !.src = attrs.src, !.provider = attrs.provider,
                            !.originalUrl = attrs.originalUrl]
         ELSE [ks[i] EXCEPT !.kids = SetEmbedAttrs(ks[i].kids, q + 1, from, to, attrs)]]

(***************************************************************************)
(* Embed plugin: handlePaste and handleKeyDown (embed.ts)                  *)
(***************************************************************************)

\* What a handler did: its return ("true", "false", "fault" when it threw, "void"
\* for a listener that returns nothing) and the state after each transaction it
\* dispatched.
Declined == [ret |-> "false", txs |-> <<>>]

Faulted == [ret |-> "fault", txs |-> <<>>]

Nothing == [ret |-> "void", txs |-> <<>>]

\* The text the embed paste handler works on: the trimmed text/plain, or the first
\* qualifying link of text/html when the plain text is missing or has white space.
PasteText(clip) ==
  LET text        == Trim(clip.plain)
      urlFromHtml == extractUrlFromHtml(clip.html)
  IN  IF (text = <<>> \/ HasNewline(text) \/ HasSpace(text))
         /\ urlFromHtml # Null /\ urlFromHtml # <<>>
      THEN urlFromHtml
      ELSE text

\* urlToEmbed
UrlToEmbed(text) ==
  LET atStart == extractUrlFromPastedText(text)
      found   == IF atStart # Null THEN atStart ELSE extractUrlAnywhereInText(text)
  IN  IF found # Null /\ found # <<>> THEN found
      ELSE IF ~HasNewline(text) /\ ~HasSpace(text) THEN text
      ELSE <<>>

\* from: the start of the block around the selection's start, 0 at depth 0.
PasteFrom(d, s) ==
  LET rf == Resolve(d, SelFrom(s))
  IN  IF Depth(rf) = 0 THEN 0 ELSE rf.path[Depth(rf)].before

\* to: the end of the block around the selection's end, the document's at depth 0.
PasteTo(d, s) ==
  LET rt == Resolve(d, SelTo(s))
  IN  IF Depth(rt) = 0 THEN FragSize(d) ELSE rt.path[Depth(rt)].after

\* Fault injection: the content test left out.
NothingMeaningful(d, from, to) == FALSE

\* Fault injection: only the first node of the slice looked at.
FirstBlockMeaningful(d, from, to) ==
  \E i \in 1..Len(d) :
     /\ Offset(d, i) <= from
     /\ Offset(d, i) + NodeSize(d[i]) > from
     /\ ContentSize(d[i]) > 0

\* hasMeaningfulContent: a node of doc.slice(from, to) has content.
hasMeaningfulContent(d, from, to) ==
  \E i \in 1..Len(d) :
     /\ Offset(d, i) < to
     /\ Offset(d, i) + NodeSize(d[i]) > from
     /\ ContentSize(d[i]) > 0

\* Fault injection: the pasted URL stored as src, unnormalized.
PasteEmbedNodeRawSrc(parsed, urlToEmbed) ==
  EmbedNode(urlToEmbed, parsed.provider, urlToEmbed)

\* Fault injection: the normalized URL stored as originalUrl.
PasteEmbedNodeHref(parsed, urlToEmbed) ==
  EmbedNode(parsed.embedUrl, parsed.provider, parsed.embedUrl)

\* The embed node the paste handler creates.
PasteEmbedNode(parsed, urlToEmbed) ==
  EmbedNode(parsed.embedUrl, parsed.provider, urlToEmbed)

\* Fault injection: the null test left out.
NeverNull(parsed) == FALSE

\* !parsed: the recognizer answered null.
IsNull(parsed) == ~parsed.ok

EmbedHandlePaste(d, s, clip) ==
  LET text   == PasteText(clip)
      url    == UrlToEmbed(text)
      parsed == parseEmbedUrl(url)
      from   == PasteFrom(d, s)
      to     == PasteTo(d, s)
      d2     == ReplaceBlocks(d, 0, from, to, <<PasteEmbedNode(parsed, url)>>)
  IN  IF ~clip.has THEN Declined
      ELSE IF text = <<>> THEN Declined
      ELSE IF HasSpace(url) THEN Declined
      ELSE IF IsNull(parsed) THEN Declined
      ELSE IF isInsideNestedBlock(Resolve(d, SelFrom(s)))
              \/ isInsideNestedBlock(Resolve(d, SelTo(s))) THEN Declined
      ELSE IF hasMeaningfulContent(d, from, to) THEN Declined
      ELSE [ret |-> "true",
            txs |-> <<[doc |-> d2,
                       sel |-> MapSelection(d2, s, <<[from |-> from, to |-> to, size |-> 1]>>)]>>]

\* Fault injection: the paragraph's text stored as src, unnormalized.
EnterEmbedNodeRawText(parsed, text) ==
  EmbedNode(text, parsed.provider, text)

\* The embed node the Enter handler creates.
EnterEmbedNode(parsed, text) ==
  EmbedNode(parsed.embedUrl, parsed.provider, text)

\* The Enter branch at document start.  tr is read inside its own initializer
\* (tr.doc.resolve(1)), which throws before anything is dispatched.
EnterAtDocStart(d, s) == Faulted

\* commands.setTextSelection(pos): pos clamped to the document's selectable range.
setTextSelection(d, pos) ==
  LET lo == SelFrom(AtStart(d))
      hi == SelTo(AtEnd(d))
      q  == IF pos < lo THEN lo ELSE IF pos > hi THEN hi ELSE pos
  IN  TextSel(q, q)

\* Fault injection: the cursor put one position short.
EnterCursorOffByOne(from) == from + 1

\* The position the Enter rule puts the cursor at: inside the paragraph it added.
EnterCursor(from) == from + 2

\* Fault injection: the embed and the paragraph after it dispatched one by one.
EmbedHandleKeyDownInTwoSteps(d, s, key) ==
  LET rf     == Resolve(d, SelFrom(s))
      text   == Trim(ParentText(d, rf))
      parsed == parseEmbedUrl(text)
      from   == rf.path[Depth(rf)].before
      to     == rf.path[Depth(rf)].after
      d1     == ReplaceBlocks(d, 0, from, to, <<EnterEmbedNode(parsed, text)>>)
      d2     == ReplaceBlocks(d, 0, from, to, <<EnterEmbedNode(parsed, text), Para(<<>>)>>)
      s1     == MapSelection(d1, s, <<[from |-> from, to |-> to, size |-> 1]>>)
  IN  IF key # "Enter" THEN Declined
      ELSE IF SelFrom(s) = 0 THEN EnterAtDocStart(d, s)
      ELSE IF isInsideNestedBlock(rf) THEN Declined
      ELSE IF text = <<>> THEN Declined
      ELSE IF IsNull(parsed) THEN Declined
      ELSE IF Depth(rf) = 0 THEN Faulted
      ELSE [ret |-> "true",
            txs |-> <<[doc |-> d1, sel |-> s1],
                      [doc |-> d2, sel |-> s1],
                      [doc |-> d2, sel |-> setTextSelection(d2, EnterCursor(from))]>>]

EmbedHandleKeyDown(d, s, key) ==
  LET rf     == Resolve(d, SelFrom(s))
      text   == Trim(ParentText(d, rf))
      parsed == parseEmbedUrl(text)
      from   == rf.path[Depth(rf)].before
      to     == rf.path[Depth(rf)].after
      d2     == ReplaceBlocks(d, 0, from, to, <<EnterEmbedNode(parsed, text), Para(<<>>)>>)
      steps  == <<[from |-> from, to |-> to, size |-> 1],
                  [from |-> from + 1, to |-> from + 1, size |-> 2]>>
  IN  IF key # "Enter" THEN Declined
      ELSE IF SelFrom(s) = 0 THEN EnterAtDocStart(d, s)
      ELSE IF isInsideNestedBlock(rf) THEN Declined
      ELSE IF text = <<>> THEN Declined
      ELSE IF IsNull(parsed) THEN Declined
      \* $from.before(0) throws a RangeError: there is no position before the root.
      ELSE IF Depth(rf) = 0 THEN Faulted
      ELSE [ret |-> "true",
            txs |-> <<[doc |-> d2, sel |-> MapSelection(d2, s, steps)],
                      [doc |-> d2, sel |-> setTextSelection(d2, EnterCursor(from))]>>]

(***************************************************************************)
(* The caret variant of the embed paste handler                            *)
(***************************************************************************)

\* parseEmbedUrl of the caret variant: no pattern test, and a string that does not
\* start with "http" is read as a host.  The hosts of the alphabet are none of the
\* providers it rewrites, so a parsed URL comes out as a generic embed.
CaretParseEmbedUrl(input) ==
  LET raw == Trim(input)
      url == UrlHref(IF StartsWithAt(raw, 1, HTTP) THEN raw ELSE HTTPS_SLASHES \o raw)
  IN  IF raw = <<>> THEN NoEmbedUrl
      ELSE IF url.ok THEN [ok |-> TRUE, embedUrl |-> url.href, provider |-> "generic"]
      ELSE NoEmbedUrl

\* isEmptyLine: the block around the selection's start has no content, or only
\* white space.
isEmptyLine(d, s) ==
  LET rp == Resolve(d, SelFrom(s))
  IN  ParentContentSize(d, rp) = 0 \/ Trim(ParentText(d, rp)) = <<>>

\* handlePaste of the caret variant: it looks at the selection's start only and
\* inserts the embed there.
CaretHandlePaste(d, s, clip) ==
  LET text   == Trim(clip.plain)
      parsed == CaretParseEmbedUrl(text)
  IN  IF text = <<>> \/ HasNewline(text) THEN Declined
      ELSE IF HasSpace(text) THEN Declined
      ELSE IF IsNull(parsed) THEN Declined
      ELSE IF ~isEmptyLine(d, s) THEN Declined
      ELSE IF isInsideNestedBlock(Resolve(d, SelFrom(s))) THEN Declined
      ELSE [ret |-> "true",
            txs |-> <<insertContentAt(d, s, SelFrom(s),
                        <<EmbedNode(parsed.embedUrl, parsed.provider, text)>>)>>]

(***************************************************************************)
(* Markdown paste, embed edit panel (editor.ts), insert button (main.ts)   *)
(***************************************************************************)

\* parse is the markdown parser's answer for the pasted text: the children of the
\* doc node it returns, or ok = FALSE when it throws.
\* Fault injection: false returned after the content was inserted.
MarkdownHandlePasteThenDecline(d, s, clip, parse, allowedLevels) ==
  LET text == Trim(clip.plain)
  IN  IF ~clip.has THEN Declined
      ELSE IF clip.html.raw = "markup" THEN Declined
      ELSE IF text = <<>> \/ ~looksLikeMarkdown(text) THEN Declined
      ELSE IF ~parse.ok THEN Faulted
      ELSE [ret |-> "false",
            txs |-> <<insertContent(d, s,
                        normalizeHeadingLevelsInContent(parse.content, allowedLevels))>>]

\* Fault injection: the text/html test left out.
MarkdownHandlePasteAnyHtml(d, s, clip, parse, allowedLevels) ==
  LET text == Trim(clip.plain)
  IN  IF ~clip.has THEN Declined
      ELSE IF text = <<>> \/ ~looksLikeMarkdown(text) THEN Declined
      ELSE IF ~parse.ok THEN Faulted
      ELSE [ret |-> "true",
            txs |-> <<insertContent(d, s,
                        normalizeHeadingLevelsInContent(parse.content, allowedLevels))>>]

MarkdownHandlePaste(d, s, clip, parse, allowedLevels) ==
  LET text == Trim(clip.plain)
  IN  IF ~clip.has THEN Declined
      ELSE IF clip.html.raw = "markup" THEN Declined
      ELSE IF text = <<>> \/ ~looksLikeMarkdown(text) THEN Declined
      ELSE IF ~parse.ok THEN Faulted
      ELSE [ret |-> "true",
            txs |-> <<insertContent(d, s,
                        normalizeHeadingLevelsInContent(parse.content, allowedLevels))>>]

\* commit of attachEmbedEditMenu, with value the text of the src input.
EmbedEditCommit(d, s, value) ==
  LET urlRaw == Trim(value)
      parsed == IF urlRaw # <<>> THEN parseEmbedUrl(urlRaw) ELSE NoEmbedUrl
      attrs  == [src |-> parsed.embedUrl, provider |-> parsed.provider,
                 originalUrl |-> urlRaw]
      hit    == EmbedsBetween(d, SelFrom(s), SelTo(s))
      d2     == SetEmbedAttrs(d, 0, SelFrom(s), SelTo(s), attrs)
      steps  == [i \in 1..Cardinality(hit) |->
                   LET q == CHOOSE e \in hit : Cardinality({f \in hit : f < e}) = i - 1
                   IN  [from |-> q, to |-> q + 1, size |-> 1]]
  IN  IF ~isActiveEmbed(d, s) THEN Nothing
      ELSE IF IsNull(parsed) THEN Nothing
      ELSE [ret |-> "void", txs |-> <<[doc |-> d2, sel |-> MapSelection(d2, s, steps)]>>]

\* The click listener of the insert-embed button, with raw the prompt's answer
\* (Null when the prompt was cancelled).
InsertEmbedClick(d, s, raw) ==
  LET parsed == parseEmbedUrl(raw)
  IN  IF raw = Null THEN Nothing
      ELSE IF Trim(raw) = <<>> THEN Nothing
      ELSE IF IsNull(parsed) THEN Nothing
      ELSE [ret |-> "void",
            txs |-> <<insertContent(d, s,
                        <<EmbedNode(parsed.embedUrl, parsed.provider, Trim(raw))>>)>>]

(***************************************************************************)
(* Text sanitizer (utils/string.ts).  Here a string is a sequence of       *)
(* UTF-16 code units, each a number.                                       *)
(***************************************************************************)

\* [lo, hi] pairs of allowed code points: LF, CR, Basic Latin, Latin-1 Supplement,
\* Latin Extended-A and -B, Greek, Cyrillic, Latin Extended Additional, General
\* Punctuation, Currency, Letterlike, Number Forms, Arrows, Miscellaneous Symbols,
\* Dingbats, and four emoji blocks.
SAFE_TEXT_RANGES ==
  { <<10, 10>>, <<13, 13>>, <<32, 126>>, <<160, 255>>, <<256, 383>>, <<384, 591>>,
    <<880, 1023>>, <<1024, 1279>>, <<7680, 7935>>, <<8192, 8303>>, <<8352, 8399>>,
    <<8448, 8527>>, <<8528, 8591>>, <<8592, 8703>>, <<9728, 9983>>, <<9984, 10175>>,
    <<127744, 128511>>, <<128512, 128591>>, <<128640, 128767>>, <<129280, 129535>> }

\* DOUBLE LOW LINE
STRIP_CODE_POINTS == {8215}

\* Fault injection: the surrogate range let through.
AllowedOrSurrogate(codePoint) ==
  /\ codePoint \notin STRIP_CODE_POINTS
  /\ \/ \E r \in SAFE_TEXT_RANGES : codePoint >= r[1] /\ codePoint <= r[2]
     \/ (codePoint >= 55296 /\ codePoint <= 57343)

\* Fault injection: the deny list forgotten.
AllowedIgnoringDenyList(codePoint) ==
  \E r \in SAFE_TEXT_RANGES : codePoint >= r[1] /\ codePoint <= r[2]

isAllowedCodePoint(codePoint) ==
  /\ codePoint \notin STRIP_CODE_POINTS
  /\ \E r \in SAFE_TEXT_RANGES : codePoint >= r[1] /\ codePoint <= r[2]

\* The code point at index i of str (indices from 1) and the units it takes.
getCodePoint(str, i) ==
  LET lead == str[i]
  IN  IF lead >= 55296 /\ lead <= 56319 /\ i + 1 <= Len(str)
         /\ str[i + 1] >= 56320 /\ str[i + 1] <= 57343
      THEN [cp |-> (lead - 55296) * 1024 + (str[i + 1] - 56320) + 65536, length |-> 2]
      ELSE [cp |-> lead, length |-> 1]

RECURSIVE FilterFrom(_, _)

\* The loop of filterToSafeText from index i on.
FilterFrom(str, i) ==
  IF i > Len(str) THEN <<>>
  ELSE LET c == getCodePoint(str, i)
       IN  (IF isAllowedCodePoint(c.cp) THEN SubSeq(str, i, i + c.length - 1) ELSE <<>>)
             \o FilterFrom(str, i + c.length)

filterToSafeText(str) == FilterFrom(str, 1)

\* The units String.prototype.trim removes.
JS_WHITESPACE ==
  {9, 10, 11, 12, 13, 32, 160, 5760, 8232, 8233, 8239, 8287, 12288, 65279}
    \cup (8192..8202)

\* line.trim()
TrimUnits(t) ==
  LET keep == {i \in 1..Len(t) : t[i] \notin JS_WHITESPACE}
  IN  IF keep = {} THEN <<>> ELSE SubSeq(t, SetMin(keep), SetMax(keep))

\* "&nbsp;"
NBSP_ENTITY == <<38, 110, 98, 115, 112, 59>>

\* The i flag: A-Z read as a-z.
LowerUnit(u) == IF u >= 65 /\ u <= 90 THEN u + 32 ELSE u

RECURSIVE WithoutUnit(_, _)

\* line.replace(/ /g, "") for u the no-break space
WithoutUnit(t, u) ==
  IF t = <<>> THEN <<>>
  ELSE (IF Head(t) = u THEN <<>> ELSE <<Head(t)>>) \o WithoutUnit(Tail(t), u)

RECURSIVE WithoutEntity(_)

\* line.replace(/&nbsp;/gi, ""): matches taken left to right, the result not rescanned.
WithoutEntity(t) ==
  IF Len(t) < Len(NBSP_ENTITY) THEN t
  ELSE IF [i \in 1..Len(NBSP_ENTITY) |-> LowerUnit(t[i])] = NBSP_ENTITY
       THEN WithoutEntity(SubSeq(t, Len(NBSP_ENTITY) + 1, Len(t)))
       ELSE <<Head(t)>> \o WithoutEntity(Tail(t))

isBlankLine(line) == TrimUnits(WithoutEntity(WithoutUnit(line, 160))) = <<>>

RECURSIVE SplitLines(_)

\* safe.split("\n")
SplitLines(t) ==
  LET nl == {i \in 1..Len(t) : t[i] = 10}
  IN  IF nl = {} THEN <<t>>
      ELSE <<SubSeq(t, 1, SetMin(nl) - 1)>> \o SplitLines(SubSeq(t, SetMin(nl) + 1, Len(t)))

RECURSIVE JoinLines(_)

\* result.join("\n")
JoinLines(ls) ==
  IF ls = <<>> THEN <<>>
  ELSE IF Len(ls) = 1 THEN ls[1]
  ELSE ls[1] \o <<10>> \o JoinLines(Tail(ls))

RECURSIVE EveryBlankKept(_, _)

\* Fault injection: inBlankRun never set, so every blank line leaves an empty one.
EveryBlankKept(lines, inBlankRun) ==
  IF lines = <<>> THEN <<>>
  ELSE IF isBlankLine(Head(lines)) THEN << <<>> >> \o EveryBlankKept(Tail(lines), FALSE)
  ELSE <<Head(lines)>> \o EveryBlankKept(Tail(lines), FALSE)

RECURSIVE CollapseBlankRuns(_, _)

\* The loop of cleanupMarkdownOutput over the lines left, with its flag.
CollapseBlankRuns(lines, inBlankRun) ==
  IF lines = <<>> THEN <<>>
  ELSE IF isBlankLine(Head(lines))
       THEN (IF inBlankRun THEN <<>> ELSE << <<>> >>) \o CollapseBlankRuns(Tail(lines), TRUE)
       ELSE <<Head(lines)>> \o CollapseBlankRuns(Tail(lines), FALSE)

cleanupMarkdownOutput(markdown) ==
  JoinLines(CollapseBlankRuns(SplitLines(filterToSafeText(markdown)), FALSE))

(***************************************************************************)
(* Markdown copy (the MarkdownCopy extension of editor.ts)                 *)
(***************************************************************************)

RECURSIVE CutSizeFrom(_, _, _, _)

\* fragment.cut(from, to).size, from child i on: a child the range reaches into is
\* kept, cut to the part of its content the range covers.
CutSizeFrom(ks, i, from, to) ==
  IF i > Len(ks) \/ Offset(ks, i) >= to THEN 0
  ELSE LET pos  == Offset(ks, i)
           end  == pos + NodeSize(ks[i])
           lo   == IF from - pos - 1 > 0 THEN from - pos - 1 ELSE 0
           hi   == IF to - pos - 1 < ContentSize(ks[i]) THEN to - pos - 1 ELSE ContentSize(ks[i])
           kept == IF end <= from THEN 0
                   ELSE IF pos >= from /\ end <= to THEN NodeSize(ks[i])
                   ELSE IF ks[i].type \in AtomTypes THEN 1
                   ELSE IF ks[i].type \in TextblockTypes THEN 2 + (hi - lo)
                   ELSE 2 + CutSizeFrom(ks[i].kids, 1, lo, hi)
       IN  kept + CutSizeFrom(ks, i + 1, from, to)

RECURSIVE SliceContentSize(_, _, _)

\* doc.slice(from, to).content.size: the cut is taken in the deepest node that has
\* both ends in its content.
SliceContentSize(ks, from, to) ==
  LET around == {i \in 1..Len(ks) :
                   /\ ks[i].type \notin AtomTypes
                   /\ Offset(ks, i) + 1 <= from
                   /\ to <= Offset(ks, i) + NodeSize(ks[i]) - 1}
  IN  IF from = to THEN 0
      ELSE IF around = {} THEN CutSizeFrom(ks, 1, from, to)
      ELSE LET i == SetMin(around)
           IN  IF ks[i].type \in TextblockTypes THEN to - from
               ELSE SliceContentSize(ks[i].kids, from - Offset(ks, i) - 1, to - Offset(ks, i) - 1)

\* What a copy handler did with its event: the default suppressed or not, the
\* clipboard cleared or not, and the payloads set, in order.
NoCopy == [ret |-> "false", prevented |-> FALSE, cleared |-> FALSE, written |-> <<>>]

\* Fault injection: the serializer's output goes to the clipboard as it is.
CopyPayloadUnsanitized(markdown) == markdown

\* markdown = cleanupMarkdownOutput(markdown)
CopyPayload(markdown) == cleanupMarkdownOutput(markdown)

\* Fault injection: the copy intercepted whatever is selected.
MarkdownCopyAlways(d, s, markdown) ==
  [ret |-> "true", prevented |-> TRUE, cleared |-> TRUE,
   written |-> <<[type |-> "text/plain", data |-> CopyPayload(markdown)]>>]

\* The copy handler of MarkdownCopy, the serializer answering markdown for the
\* selected slice.
MarkdownCopyHandler(d, s, markdown) ==
  IF SelFrom(s) = SelTo(s) THEN NoCopy
  ELSE IF SliceContentSize(d, SelFrom(s), SelTo(s)) = 0 THEN NoCopy
  ELSE [ret |-> "true", prevented |-> TRUE, cleared |-> TRUE,
        written |-> <<[type |-> "text/plain", data |-> CopyPayload(markdown)]>>]

(***************************************************************************)
(* Rendering of the embed node (Embed.renderHTML of embed.ts)              *)
(***************************************************************************)

EMBED_HANDLER_URL_PLACEHOLDER == <<"{", "u", "r", "l", "}">>

\* The characters of the alphabet that encodeURIComponent escapes, with the escape
\* of each; letters, digits and - _ . ! ~ * ' ( ) it leaves alone.
PercentEscapes ==
  [c \in {":", "/", "#", "?", " ", "{", "}", "%"} |->
     CASE c = ":" -> <<"%", "3", "A">>
       [] c = "/" -> <<"%", "2", "F">>
       [] c = "#" -> <<"%", "2", "3">>
       [] c = "?" -> <<"%", "3", "F">>
       [] c = " " -> <<"%", "2", "0">>
       [] c = "{" -> <<"%", "7", "B">>
       [] c = "}" -> <<"%", "7", "D">>
       [] c = "%" -> <<"%", "2", "5">>]

RECURSIVE encodeURIComponent(_)

encodeURIComponent(t) ==
  IF t = <<>> THEN <<>>
  ELSE (IF Head(t) \in DOMAIN PercentEscapes THEN PercentEscapes[Head(t)] ELSE <<Head(t)>>)
         \o encodeURIComponent(Tail(t))

RECURSIVE SplitJoin(_, _, _)

\* t.split(sep).join(by): every occurrence of sep, taken left to right, gives way to
\* by; what was put in is not searched again.
SplitJoin(t, sep, by) ==
  IF Len(t) < Len(sep) THEN t
  ELSE IF SubSeq(t, 1, Len(sep)) = sep
       THEN by \o SplitJoin(SubSeq(t, Len(sep) + 1, Len(t)), sep, by)
       ELSE <<Head(t)>> \o SplitJoin(Tail(t), sep, by)

\* A value JavaScript treats as true, among strings and null.
Truthy(v) == v # Null /\ v # <<>>

\* Fault injection: the templated URL written to data-embed-src as well.
RenderTemplatedAttribute(node, handler) ==
  LET provider == IF node.provider = "" THEN "generic" ELSE node.provider
      src == IF provider = "generic" /\ Truthy(handler) /\ Truthy(node.src)
             THEN SplitJoin(handler, EMBED_HANDLER_URL_PLACEHOLDER, encodeURIComponent(node.src))
             ELSE node.src
  IN  [node |-> node, dataEmbedSrc |-> src, dataEmbedProvider |-> provider,
       dataEmbedOriginalUrl |-> IF Truthy(node.originalUrl) THEN node.originalUrl ELSE Null,
       iframeSrc |-> src]

\* renderHTML of node with the option customEmbedHandler at handler: the node as it
\* is after the call, the data attributes of the wrapper, the src of the iframe.
renderHTML(node, handler) ==
  LET provider == IF node.provider = "" THEN "generic" ELSE node.provider
      src == IF provider = "generic" /\ Truthy(handler) /\ Truthy(node.src)
             THEN SplitJoin(handler, EMBED_HANDLER_URL_PLACEHOLDER, encodeURIComponent(node.src))
             ELSE node.src
  IN  [node |-> node, dataEmbedSrc |-> node.src, dataEmbedProvider |-> provider,
       dataEmbedOriginalUrl |-> IF Truthy(node.originalUrl) THEN node.originalUrl ELSE Null,
       iframeSrc |-> src]

(***************************************************************************)
(* Link edit panel (attachLinkEditMenu of editor.ts).  The document is one *)
(* paragraph of n characters, of which the characters ls..le carry the     *)
(* link mark; the selection runs between the offsets from and to.          *)
(***************************************************************************)

\* Character k carries the link mark.
Linked(st, k) == k >= st.ls /\ k <= st.le

\* editor.isActive("link"): for a cursor, the mark of the character before it (of
\* the first character at offset 0; the link mark is inclusive); for a range, every
\* character in it carries the mark.
isActiveLink(st) ==
  IF st.from = st.to
  THEN IF st.from = 0 THEN st.n > 0 /\ Linked(st, 1) ELSE Linked(st, st.from)
  ELSE \A k \in (st.from + 1)..st.to : Linked(st, k)

\* extendMarkRange("link"): the selection set to the range of the link at $from,
\* looked for after the position and then before it.
extendMarkRange(st) ==
  LET after  == st.from < st.n /\ Linked(st, st.from + 1)
      before == st.from >= 1 /\ Linked(st, st.from)
  IN  IF (after \/ before) /\ st.ls - 1 <= st.from /\ st.le >= st.to
      THEN [st EXCEPT !.from = st.ls - 1, !.to = st.le]
      ELSE st

\* One run of syncFromSelection, entered in state st, did or did not extend.
SyncCall(st, extended) ==
  [wasVisible |-> st.wasVisible, collapsed |-> st.from = st.to, extended |-> extended]

RECURSIVE SyncForgettingVisible(_)

\* Fault injection: linkPanelWasVisible never set.
SyncForgettingVisible(st) ==
  IF ~isActiveLink(st)
  THEN [st EXCEPT !.shown = FALSE, !.wasVisible = FALSE, !.extensions = 0,
                  !.calls = Append(st.calls, SyncCall(st, FALSE))]
  ELSE IF st.from # st.to
  THEN [st EXCEPT !.shown = TRUE,
                  !.calls = Append(st.calls, SyncCall(st, FALSE))]
  ELSE IF ~st.wasVisible
  THEN LET st2 == extendMarkRange(
                    [st EXCEPT !.shown = TRUE,
                               !.calls = Append(st.calls, SyncCall(st, TRUE)),
                               !.extensions = st.extensions + 1])
       IN  IF st2.from # st.from \/ st2.to # st.to THEN SyncForgettingVisible(st2) ELSE st2
  ELSE [st EXCEPT !.shown = TRUE,
                  !.calls = Append(st.calls, SyncCall(st, FALSE))]

RECURSIVE syncFromSelection(_)

\* The selectionUpdate listener.  The transaction extendMarkRange dispatches changes
\* the selection, so the editor emits selectionUpdate again and the listener runs
\* once more before the outer run returns.  calls and extensions record what
\* happened: the runs for this event, and the extensions since the panel was last
\* hidden.
syncFromSelection(st) ==
  IF ~isActiveLink(st)
  THEN [st EXCEPT !.shown = FALSE, !.wasVisible = FALSE, !.extensions = 0,
                  !.calls = Append(st.calls, SyncCall(st, FALSE))]
  ELSE IF st.from # st.to
  THEN [st EXCEPT !.shown = TRUE, !.wasVisible = TRUE,
                  !.calls = Append(st.calls, SyncCall(st, FALSE))]
  ELSE IF ~st.wasVisible
  THEN LET st2 == extendMarkRange(
                    [st EXCEPT !.shown = TRUE, !.wasVisible = TRUE,
                               !.calls = Append(st.calls, SyncCall(st, TRUE)),
                               !.extensions = st.extensions + 1])
       IN  IF st2.from # st.from \/ st2.to # st.to THEN syncFromSelection(st2) ELSE st2
  ELSE [st EXCEPT !.shown = TRUE, !.wasVisible = TRUE,
                  !.calls = Append(st.calls, SyncCall(st, FALSE))]

\* The panel of an editor whose paragraph has n characters, the link on ls..le
\* (none when le < ls), before any selection update: hidden, the cursor at c.
LinkEditAt(n, ls, le, c) ==
  [n |-> n, ls |-> ls, le |-> le, from |-> c, to |-> c,
   wasVisible |-> FALSE, shown |-> FALSE, calls |-> <<>>, extensions |-> 0]

(***************************************************************************)
(* Menu adapters (attachImageAltMenu, attachEmbedEditMenu and              *)
(* attachLinkEditMenu of editor.ts).  A listener is known by the call of   *)
(* attach that made it (every call makes new function objects), the target *)
(* it is registered on, the event type and the function.  addEventListener *)
(* and editor.on add it; removeEventListener and editor.off take away the  *)
(* registrations of that very function and do nothing when there is none.  *)
(***************************************************************************)

\* Function fn of attach call k, registered on target on for events of type type.
Registration(k, on, type, fn) == [by |-> k, on |-> on, type |-> type, fn |-> fn]

\* attachImageAltMenu, call k, on a menu element el: what it registers and what
\* the detach function it returns removes.  The keydown listener is an arrow
\* function written in the addEventListener call.
attachImageAltMenu(k, el) ==
  IF ~el.alt THEN [registers |-> {}, removes |-> {}]
  ELSE [registers |-> {Registration(k, "editor", "selectionUpdate", "syncFromSelection"),
                       Registration(k, "input", "change", "commitAlt"),
                       Registration(k, "input", "blur", "commitAlt"),
                       Registration(k, "input", "keydown", "arrow")},
        removes   |-> {Registration(k, "editor", "selectionUpdate", "syncFromSelection"),
                       Registration(k, "input", "change", "commitAlt"),
                       Registration(k, "input", "blur", "commitAlt")}]

\* attachEmbedEditMenu, likewise.
attachEmbedEditMenu(k, el) ==
  IF ~el.src THEN [registers |-> {}, removes |-> {}]
  ELSE [registers |-> {Registration(k, "editor", "selectionUpdate", "syncFromSelection"),
                       Registration(k, "srcInput", "change", "commit"),
                       Registration(k, "srcInput", "blur", "commit"),
                       Registration(k, "srcInput", "keydown", "arrow")},
        removes   |-> {Registration(k, "editor", "selectionUpdate", "syncFromSelection"),
                       Registration(k, "srcInput", "change", "commit"),
                       Registration(k, "srcInput", "blur", "commit")}]

\* attachLinkEditMenu, likewise; its keydown listener is the constant handleKeydown.
attachLinkEditMenu(k, el) ==
  IF ~el.url \/ ~el.label THEN [registers |-> {}, removes |-> {}]
  ELSE LET all == {Registration(k, "editor", "selectionUpdate", "syncFromSelection")}
                    \cup {Registration(k, on, type, "commit") :
                             on \in {"urlInput", "labelInput"}, type \in {"change", "blur"}}
                    \cup {Registration(k, on, "keydown", "handleKeydown") :
                             on \in {"urlInput", "labelInput"}}
       IN  [registers |-> all, removes |-> all]

\* The three adapters by name.
MenuAdapters == {"imageAlt", "embedEdit", "linkEdit"}

\* Call k of the adapter named a on element el.
AttachMenu(a, k, el) ==
  CASE a = "imageAlt"  -> attachImageAltMenu(k, el)
    [] a = "embedEdit" -> attachEmbedEditMenu(k, el)
    [] a = "linkEdit"  -> attachLinkEditMenu(k, el)

\* No adapter attached yet.  handles are the detach functions returned so far;
\* last tells whether the latest calls were an attach (step "attached") and then
\* the detach it returned (step "detached"), and what was registered before.
NoMenus ==
  [listeners |-> {}, handles |-> <<>>,
   last |-> [step |-> "none", by |-> 0, before |-> {}]]

(***************************************************************************)
(* The editor as a state machine                                           *)
(***************************************************************************)

\* Events one run delivers to the editor.
MaxEvents == 2

\* Events before which the user may move the selection.
MaxPlacedEvents == 1

\* Top-level blocks of the content the editor is created with.
MaxInitBlocks == 2

U == HTTPS_SLASHES \o <<"a">>

PROSE == <<"a", " ", "a">>

MARKDOWN == <<"#", " ", "a">>

\* text/html payloads: white space, markup without a qualifying link, markup whose
\* second link qualifies.
BlankHtml == [raw |-> "blank", hrefs |-> <<>>]

PlainMarkup == [raw |-> "markup", hrefs |-> << <<"/", "a">> >>]

LinkMarkup == [raw |-> "markup", hrefs |-> << <<"/", "a">>, U \o <<"/", "a">> >>]

Clip(plain, html) == [has |-> TRUE, plain |-> plain, html |-> html]

\* event.clipboardData is null
NoClipboard == [has |-> FALSE, plain |-> <<>>, html |-> NoHtml]

\* The clipboards pasted: none; a bare URL, alone and beside markup with another
\* link; one in white space; prose, alone and beside markup with and without a
\* link; markup only; a title line over a URL; a URL followed by prose; a URL that
\* also reads as markdown; markdown, alone and beside markup; a string the URL
\* pattern accepts and the URL parser rejects.
Clipboards ==
  { NoClipboard,
    Clip(U, NoHtml),
    Clip(U, LinkMarkup),
    Clip(<<" ">> \o U \o <<"\n">>, NoHtml),
    Clip(PROSE, NoHtml),
    Clip(PROSE, PlainMarkup),
    Clip(PROSE, LinkMarkup),
    Clip(<<>>, LinkMarkup),
    Clip(<<>>, BlankHtml),
    Clip(<<"a", "\n">> \o U, NoHtml),
    Clip(U \o <<" ", "a">>, NoHtml),
    Clip(U \o <<"/", "*", "a", "*">>, NoHtml),
    Clip(MARKDOWN, NoHtml),
    Clip(MARKDOWN, PlainMarkup),
    Clip(HTTPS_SLASHES \o <<"/">>, NoHtml) }

Keys == {"Enter", "a"}

\* What the user types into the prompt or the panel's src input.
InputTexts == {Null, <<>>, <<" ">> \o U, <<"a">>}

\* Answers of the markdown parser: a throw, a paragraph, headings at two depths.
NoParse == [ok |-> FALSE, content |-> <<>>]

ParseOutcomes ==
  { NoParse,
    [ok |-> TRUE, content |-> <<Para(<<"a">>)>>],
    [ok |-> TRUE, content |-> <<Heading(1, <<"a">>), Rule,
                               Container("blockquote", <<Heading(6, <<"a">>)>>)>>] }

\* Answers of the markdown serializer, as code units: a line; two lines with three
\* blank ones between, one of them a no-break space; a line with a combining mark,
\* a deny-listed character and an emoji.
SerializerOutputs ==
  { <<97>>,
    <<97, 10, 10, 160, 10, 10, 97>>,
    <<97, 768, 8215, 55357, 56832>> }

\* Blocks of the initial content.
InitialBlocks ==
  { Para(<<>>),
    Para(<<" ">> \o U),
    Para(<<"a">>),
    Para(<<" ">>),
    Heading(1, <<"a">>),
    Container("blockquote", <<Para(<<>>), Para(U)>>),
    Container("bulletList", <<Container("listItem", <<Para(<<>>)>>)>>),
    EmbedNode(U \o <<"/">>, "generic", U) }

InitialDocs ==
  UNION {[1..n -> InitialBlocks] : n \in 1..MaxInitBlocks}

\* The selections a user can make in d: a cursor at either end of a textblock, a
\* range from the start of one textblock to the end of the same or a later one, a
\* node selection of an atom, and select-all.
Selections(d) ==
  LET tbs   == {l \in Leaves(d) : l.node.type \in TextblockTypes}
      atoms == {l \in Leaves(d) : l.node.type \in AtomTypes}
  IN  {TextSel(l.before + 1, l.before + 1) : l \in tbs}
      \cup {TextSel(l.after - 1, l.after - 1) : l \in tbs}
      \cup {TextSel(q[1].before + 1, q[2].after - 1) :
              q \in {r \in tbs \X tbs : r[2].before > r[1].before}}
      \cup {NodeSel(d, l.before) : l \in atoms}
      \cup {AllSel(d)}

VARIABLES
  doc,            \* state.doc: the top-level blocks
  sel,            \* state.selection
  headingLevels,  \* the heading levels the editor was configured with
  stage,          \* whose turn it is: "init", "idle", or the handler to run next
  ev,             \* the event being handled, or the last one handled
  ran,            \* the handlers run for ev so far, each with its return
  dispatched,     \* the states the transactions dispatched for ev produced
  parse,          \* the markdown parser's answer for ev, once asked
  pre,            \* the document and selection ev found
  prev,           \* the paste before ev, when it put an embed in
  nEvents,        \* events delivered so far
  copied,         \* what the copy handler did with ev
  arg,            \* the arguments of a function called on its own
  res,            \* what that call returned
  linkEdit,       \* the link edit panel and the paragraph it works on
  menu            \* the listeners the menu adapters have registered

vars ==
  <<doc, sel, headingLevels, stage, ev, ran, dispatched, parse, pre, prev, nEvents,
    copied, arg, res, linkEdit, menu>>

\* No function is being called on its own.
NoCall ==
  [fn |-> "none", level |-> 0, allowed |-> <<>>, content |-> <<>>, text |-> <<>>,
   str |-> <<>>]

Event(type, key, clip, input) ==
  [type |-> type, key |-> key, clip |-> clip, input |-> input]

NoEvent == Event("none", "", NoClipboard, Null)

NoPrev == [sub |-> FALSE, clip |-> NoClipboard]

\* The state after initEditor has built the editor and before its final
\* normalizeDocHeadingLevels call.
Init ==
  /\ doc \in InitialDocs
  /\ sel = AtStart(doc)
  /\ headingLevels = DEFAULT_MARKDOWN_PASTE_HEADING_LEVELS
  /\ stage = "init"
  /\ ev = NoEvent
  /\ ran = <<>>
  /\ dispatched = <<>>
  /\ parse = NoParse
  /\ pre = [doc |-> doc, sel |-> sel]
  /\ prev = NoPrev
  /\ nEvents = 0
  /\ copied = NoCopy
  /\ arg = NoCall
  /\ res = Null
  /\ linkEdit = LinkEditAt(0, 1, 0, 0)
  /\ menu = NoMenus

\* view.dispatch for each transaction of r, in order.
Apply(r) ==
  /\ doc' = IF r.txs = <<>> THEN doc ELSE r.txs[Len(r.txs)].doc
  /\ sel' = IF r.txs = <<>> THEN sel ELSE r.txs[Len(r.txs)].sel

\* What an observer of the editor's transactions sees of r, dispatched by h.
Seen(h, r) ==
  [i \in 1..Len(r.txs) |-> [by |-> h, doc |-> r.txs[i].doc, sel |-> r.txs[i].sel]]

\* The embed paste handler put an embed in while handling ev.
Substituted ==
  /\ ev.type = "paste"
  /\ \E i \in 1..Len(ran) : ran[i] = [h |-> "embedPaste", ret |-> "true"]

\* A new event arrives: what the previous one left behind is forgotten.
Begin(e, first) ==
  /\ stage = "idle"
  /\ nEvents < MaxEvents
  /\ nEvents' = nEvents + 1
  /\ ev' = e
  /\ stage' = first
  /\ parse' = NoParse
  /\ pre' = [doc |-> doc, sel |-> sel]
  /\ prev' = IF Substituted THEN [sub |-> TRUE, clip |-> ev.clip] ELSE NoPrev
  /\ UNCHANGED <<arg, res, linkEdit, menu>>

\* Fault injection: the event goes on to the next handler whatever was returned.
RanOn(h, r, next) ==
  /\ Apply(r)
  /\ ran' = Append(ran, [h |-> h, ret |-> r.ret])
  /\ dispatched' = dispatched \o Seen(h, r)
  /\ stage' = next
  /\ UNCHANGED <<headingLevels, ev, pre, prev, nEvents, copied, arg, res, linkEdit, menu>>

\* A handler of the chain has run: a handler that returns false passes the event on
\* to next; one that returns true or throws ends the event.
Ran(h, r, next) ==
  /\ Apply(r)
  /\ ran' = Append(ran, [h |-> h, ret |-> r.ret])
  /\ dispatched' = dispatched \o Seen(h, r)
  /\ stage' = IF r.ret = "false" THEN next ELSE "idle"
  /\ UNCHANGED <<headingLevels, ev, pre, prev, nEvents, copied, arg, res, linkEdit, menu>>

\* The last statement of initEditor.
InitNormalize ==
  /\ stage = "init"
  /\ LET r == [ret |-> "void", txs |-> normalizeDocHeadingLevels(doc, sel, headingLevels)]
     IN  /\ Apply(r)
         /\ dispatched' = Seen("init", r)
  /\ stage' = "idle"
  /\ UNCHANGED <<headingLevels, ev, ran, parse, pre, prev, nEvents, copied, arg, res, linkEdit, menu>>

Paste(clip) ==
  /\ Begin(Event("paste", "", clip, Null), "embedPaste")
  /\ ran' = <<>>
  /\ dispatched' = <<>>
  /\ copied' = NoCopy
  /\ UNCHANGED <<doc, sel, headingLevels>>

EmbedPaste ==
  /\ stage = "embedPaste"
  /\ Ran("embedPaste", EmbedHandlePaste(doc, sel, ev.clip), "markdownPaste")
  /\ UNCHANGED parse

MarkdownPaste ==
  /\ stage = "markdownPaste"
  /\ \E p \in ParseOutcomes :
       LET r == MarkdownHandlePaste(doc, sel, ev.clip, p, headingLevels)
       IN  /\ Ran("markdownPaste", r, "defaultPaste")
           /\ parse' = IF r.ret = "false" THEN NoParse ELSE p

\* The host's own paste handling, which is outside this repository: it ends the
\* event and is not modelled further.
DefaultPaste ==
  /\ stage = "defaultPaste"
  /\ Ran("defaultPaste", Nothing, "idle")
  /\ UNCHANGED parse

KeyDown(key) ==
  /\ Begin(Event("keydown", key, NoClipboard, Null), "embedKey")
  /\ ran' = <<>>
  /\ dispatched' = <<>>
  /\ copied' = NoCopy
  /\ UNCHANGED <<doc, sel, headingLevels>>

EmbedKey ==
  /\ stage = "embedKey"
  /\ Ran("embedKey", EmbedHandleKeyDown(doc, sel, ev.key), "defaultKey")
  /\ UNCHANGED parse

\* The host's own key handling, outside this repository.
DefaultKey ==
  /\ stage = "defaultKey"
  /\ Ran("defaultKey", Nothing, "idle")
  /\ UNCHANGED parse

\* The user moves the selection before an event (two moves in a row are one move).
SetSelection ==
  /\ stage = "idle"
  /\ nEvents < MaxPlacedEvents
  /\ nEvents < MaxEvents
  /\ ev.type # "select"
  /\ \E s \in Selections(doc) :
       /\ s # sel
       /\ sel' = s
  /\ ev' = Event("select", "", NoClipboard, Null)
  /\ ran' = <<>>
  /\ dispatched' = <<>>
  /\ parse' = NoParse
  /\ pre' = [doc |-> doc, sel |-> sel]
  /\ prev' = NoPrev
  /\ copied' = NoCopy
  /\ UNCHANGED <<doc, headingLevels, stage, nEvents, arg, res, linkEdit, menu>>

\* A listener outside the handler chain has run, start to end.
Listener(h, r) ==
  /\ Apply(r)
  /\ ran' = <<[h |-> h, ret |-> r.ret]>>
  /\ dispatched' = Seen(h, r)
  /\ copied' = NoCopy
  /\ UNCHANGED headingLevels

\* A click on the insert-embed button, answered with raw.
InsertEmbed(raw) ==
  /\ Begin(Event("insertEmbed", "", NoClipboard, raw), "idle")
  /\ Listener("insertEmbed", InsertEmbedClick(doc, sel, raw))

\* The embed panel's src input changes to value.
EmbedEdit(value) ==
  /\ value # Null
  /\ Begin(Event("embedEdit", "", NoClipboard, value), "idle")
  /\ Listener("embedEdit", EmbedEditCommit(doc, sel, value))

\* A copy event, the serializer answering markdown if asked.  The document and the
\* selection are only read.
Copy(markdown) ==
  /\ Begin(Event("copy", "", NoClipboard, markdown), "idle")
  /\ copied' = MarkdownCopyHandler(doc, sel, markdown)
  /\ ran' = <<[h |-> "markdownCopy", ret |-> copied'.ret]>>
  /\ dispatched' = <<>>
  /\ UNCHANGED <<doc, sel, headingLevels>>

Next ==
  \/ InitNormalize
  \/ \E clip \in Clipboards : Paste(clip)
  \/ EmbedPaste
  \/ MarkdownPaste
  \/ DefaultPaste
  \/ \E key \in Keys : KeyDown(key)
  \/ EmbedKey
  \/ DefaultKey
  \/ SetSelection
  \/ \E raw \in InputTexts : InsertEmbed(raw)
  \/ \E value \in InputTexts : EmbedEdit(value)
  \/ \E markdown \in SerializerOutputs : Copy(markdown)

Spec == Init /\ [][Next]_vars

(***************************************************************************)
(* The heading normalizer on documents of every configuration             *)
(***************************************************************************)

\* markdownPasteHeadingLevels: the default, a set with a gap, one that starts at 1,
\* a single level, and none.
LevelConfigs ==
  { DEFAULT_MARKDOWN_PASTE_HEADING_LEVELS, <<2, 4>>, <<1, 2, 3>>, <<3>>, <<>> }

\* Blocks the markdown parser makes of the initial content: it gives a heading the
\* level of its marker, whatever levels the editor is configured with.
HeadingBlocks ==
  {Para(<<"a">>)}
    \cup {Heading(l, <<"a">>) : l \in 1..6}
    \cup {Container("blockquote", <<Heading(l, <<"a">>)>>) : l \in {1, 3}}

HeadingDocs ==
  UNION {[1..n -> HeadingBlocks] : n \in 1..MaxInitBlocks}

NormInit ==
  /\ doc \in HeadingDocs
  /\ sel = AtStart(doc)
  /\ headingLevels \in LevelConfigs
  /\ stage = "init"
  /\ ev = NoEvent
  /\ ran = <<>>
  /\ dispatched = <<>>
  /\ parse = NoParse
  /\ pre = [doc |-> doc, sel |-> sel]
  /\ prev = NoPrev
  /\ nEvents = 0
  /\ copied = NoCopy
  /\ arg = NoCall
  /\ res = Null
  /\ linkEdit = LinkEditAt(0, 1, 0, 0)
  /\ menu = NoMenus

\* normalizeDocHeadingLevels called a second time, on the document the first call
\* left.
NormalizeAgain ==
  /\ stage = "idle"
  /\ LET r == [ret |-> "void", txs |-> normalizeDocHeadingLevels(doc, sel, headingLevels)]
     IN  /\ Apply(r)
         /\ dispatched' = dispatched \o Seen("again", r)
  /\ pre' = [doc |-> doc, sel |-> sel]
  /\ stage' = "again"
  /\ UNCHANGED <<headingLevels, ev, ran, parse, prev, nEvents, copied, arg, res, linkEdit, menu>>

NormNext ==
  \/ InitNormalize
  \/ NormalizeAgain

NormSpec == NormInit /\ [][NormNext]_vars

(***************************************************************************)
(* The pure functions, each called on its own                              *)
(***************************************************************************)

\* Code units of a text given unit by unit.
MaxTextLen == 3

\* Lines of a text given line by line.
MaxLines == 4

RECURSIVE Ascending(_)

\* The members of S in ascending order.
Ascending(S) ==
  IF S = {} THEN <<>> ELSE <<SetMin(S)>> \o Ascending(S \ {SetMin(S)})

\* allowed: every ascending list of levels 1..6, and two lists out of order.
AllowedLists ==
  {Ascending(S) : S \in SUBSET (1..6)} \cup { <<4, 2>>, <<6, 2, 4>> }

ClampCalls ==
  {[NoCall EXCEPT !.fn = "clampHeadingLevel", !.level = l, !.allowed = a] :
     l \in (-1)..8, a \in AllowedLists}

\* Blocks of a parsed tree: headings at depth 0, 1 and 2 among other nodes.
ContentBlocks ==
  { Para(<<"a">>), Rule }
    \cup {Heading(l, <<"a">>) : l \in {1, 3, 6}}
    \cup {Container("blockquote", <<Heading(l, <<"a">>)>>) : l \in {1, 5}}
    \cup {Container("bulletList",
            <<Container("listItem", <<Heading(4, <<"a">>), Para(<<"a">>)>>)>>)}

ContentCalls ==
  {[NoCall EXCEPT !.fn = "normalizeHeadingLevelsInContent", !.content = c, !.allowed = a] :
     c \in UNION {[1..n -> ContentBlocks] : n \in 1..2}, a \in LevelConfigs \cup { <<4, 2>> }}

\* Code units: a, space, line feed, no-break space, em space, COMBINING GRAVE
\* ACCENT, DOUBLE LOW LINE, a lead and a trail surrogate that pair into an emoji,
\* and a lead and a trail that pair with any other into a disallowed code point.
TextUnits == {97, 32, 10, 160, 8195, 768, 8215, 55357, 56832, 55296, 56320}

\* Lines: empty, a space, a no-break space, the entity in either case, the entity
\* split by a no-break space, a letter, the entity short of its semicolon, a letter
\* before a no-break space.
TextLines ==
  { <<>>, <<32>>, <<160>>, NBSP_ENTITY, <<38, 78, 66, 83, 80, 59>>,
    <<38, 110, 98, 160, 115, 112, 59>>,
    <<97>>, <<38, 110, 98, 115, 112>>, <<97, 160>> }

Texts ==
  UNION {[1..n -> TextUnits] : n \in 0..MaxTextLen}
    \cup {JoinLines(ls) : ls \in UNION {[1..n -> TextLines] : n \in 1..MaxLines}}

TextCalls ==
  {[NoCall EXCEPT !.fn = f, !.text = t] :
     f \in {"filterToSafeText", "cleanupMarkdownOutput"}, t \in Texts}

\* customEmbedHandler: unset, empty, a template with the placeholder once, twice,
\* without its closing brace, and not at all.
EmbedHandlers ==
  { Null, <<>>,
    <<"h", "?", "u", "=">> \o EMBED_HANDLER_URL_PLACEHOLDER,
    EMBED_HANDLER_URL_PLACEHOLDER \o <<"/">> \o EMBED_HANDLER_URL_PLACEHOLDER \o <<"#">>,
    <<"h", "?", "{", "u", "r", "l">>,
    <<"h">> }

\* Embed nodes to render: with and without src and originalUrl, of the generic
\* provider, of another one and of none.
RenderedNodes ==
  {EmbedNode(s, p, o) :
     s \in {Null, U \o <<"/">>, U \o <<"/", "{", "u", "r", "l", "}", " ", "#">>},
     p \in {"generic", "youtube", ""},
     o \in {Null, U}}

RenderCalls ==
  {[NoCall EXCEPT !.fn = "renderHTML", !.content = <<n>>, !.str = h] :
     n \in RenderedNodes, h \in EmbedHandlers}

\* Inputs of parseEmbedUrl: white space or none, a scheme or none, a rest, white
\* space or none.
ParseCalls ==
  {[NoCall EXCEPT !.fn = "parseEmbedUrl", !.str = a \o b \o c \o d] :
     a \in { <<>>, <<" ">> },
     b \in { <<>>, HTTP_SLASHES, HTTPS_SLASHES, <<"h", "t", "t", "p", ":", "/">>,
             <<"a", ":", "/", "/">> },
     c \in { <<>>, <<"a">>, <<"a", " ", "a">>, <<"/">>, <<"a", "/", "a">>, <<":">>,
             <<"a", "\n", "a">> },
     d \in { <<>>, <<"\n">> }}

PureInit ==
  /\ doc = <<Para(<<>>)>>
  /\ sel = AtStart(doc)
  /\ headingLevels = DEFAULT_MARKDOWN_PASTE_HEADING_LEVELS
  /\ stage = "call"
  /\ ev = NoEvent
  /\ ran = <<>>
  /\ dispatched = <<>>
  /\ parse = NoParse
  /\ pre = [doc |-> doc, sel |-> sel]
  /\ prev = NoPrev
  /\ nEvents = 0
  /\ copied = NoCopy
  /\ arg \in ClampCalls \cup ContentCalls \cup TextCalls \cup RenderCalls \cup ParseCalls
  /\ res = Null
  /\ linkEdit = LinkEditAt(0, 1, 0, 0)
  /\ menu = NoMenus

\* The call of arg returns value.
Returned(fn, value) ==
  /\ stage = "call"
  /\ arg.fn = fn
  /\ res' = value
  /\ stage' = "returned"
  /\ UNCHANGED <<doc, sel, headingLevels, ev, ran, dispatched, parse, pre, prev, nEvents,
                 copied, arg, linkEdit, menu>>

ClampCall ==
  Returned("clampHeadingLevel", clampHeadingLevel(arg.level, arg.allowed))

ContentCall ==
  Returned("normalizeHeadingLevelsInContent",
           normalizeHeadingLevelsInContent(arg.content, arg.allowed))

FilterCall ==
  Returned("filterToSafeText", filterToSafeText(arg.text))

CleanupCall ==
  Returned("cleanupMarkdownOutput", cleanupMarkdownOutput(arg.text))

RenderCall ==
  Returned("renderHTML", renderHTML(arg.content[1], arg.str))

ParseCall ==
  Returned("parseEmbedUrl", parseEmbedUrl(arg.str))

PureNext ==
  \/ RenderCall
  \/ ParseCall
  \/ ClampCall
  \/ ContentCall
  \/ FilterCall
  \/ CleanupCall

PureSpec == PureInit /\ [][PureNext]_vars

(***************************************************************************)
(* The link edit panel under selection updates                             *)
(***************************************************************************)

\* Characters of the paragraph the link edit panel works on.
MaxLinkText == 4

LinkInit ==
  /\ doc = <<Para(<<>>)>>
  /\ sel = AtStart(doc)
  /\ headingLevels = DEFAULT_MARKDOWN_PASTE_HEADING_LEVELS
  /\ stage = "idle"
  /\ ev = NoEvent
  /\ ran = <<>>
  /\ dispatched = <<>>
  /\ parse = NoParse
  /\ pre = [doc |-> doc, sel |-> sel]
  /\ prev = NoPrev
  /\ nEvents = 0
  /\ copied = NoCopy
  /\ arg = NoCall
  /\ res = Null
  /\ \E n \in 1..MaxLinkText : \E ls \in 1..(n + 1) : \E le \in (ls - 1)..n :
       /\ le >= ls \/ ls = 1
       /\ linkEdit = LinkEditAt(n, ls, le, 0)
  /\ menu = NoMenus

\* The user moves the selection to from..to; the editor emits selectionUpdate and
\* the listener runs to its end.
SelectionUpdate(from, to) ==
  /\ from <= to
  /\ to <= linkEdit.n
  /\ from # linkEdit.from \/ to # linkEdit.to
  /\ linkEdit' = syncFromSelection([linkEdit EXCEPT !.from = from, !.to = to, !.calls = <<>>])
  /\ UNCHANGED <<doc, sel, headingLevels, stage, ev, ran, dispatched, parse, pre, prev,
                 nEvents, copied, arg, res, menu>>

LinkNext ==
  \E from \in 0..MaxLinkText : \E to \in 0..MaxLinkText : SelectionUpdate(from, to)

LinkSpec == LinkInit /\ [][LinkNext]_vars

(***************************************************************************)
(* The menu adapters attached and detached                                 *)
(***************************************************************************)

\* Calls of attach in one run.
MaxAttaches == 2

\* Menu elements: which of the inputs the adapters look for are in them.
MenuElements == [alt : BOOLEAN, src : BOOLEAN, url : BOOLEAN, label : BOOLEAN]

MenuInit ==
  /\ doc = <<Para(<<>>)>>
  /\ sel = AtStart(doc)
  /\ headingLevels = DEFAULT_MARKDOWN_PASTE_HEADING_LEVELS
  /\ stage = "idle"
  /\ ev = NoEvent
  /\ ran = <<>>
  /\ dispatched = <<>>
  /\ parse = NoParse
  /\ pre = [doc |-> doc, sel |-> sel]
  /\ prev = NoPrev
  /\ nEvents = 0
  /\ copied = NoCopy
  /\ arg = NoCall
  /\ res = Null
  /\ linkEdit = LinkEditAt(0, 1, 0, 0)
  /\ menu = NoMenus

\* attach of adapter a called on element el.
Attach(a, el) ==
  LET k == Len(menu.handles) + 1
  IN  /\ k <= MaxAttaches
      /\ menu' = [listeners |-> menu.listeners \cup AttachMenu(a, k, el).registers,
                  handles   |-> Append(menu.handles, [adapter |-> a, el |-> el]),
                  last      |-> [step |-> "attached", by |-> k, before |-> menu.listeners]]
      /\ UNCHANGED <<doc, sel, headingLevels, stage, ev, ran, dispatched, parse, pre, prev,
                     nEvents, copied, arg, res, linkEdit>>

\* The detach function that call k of attach returned is called.
Detach(k) ==
  /\ k \in 1..Len(menu.handles)
  /\ menu' = [menu EXCEPT
                !.listeners = @ \ AttachMenu(menu.handles[k].adapter, k, menu.handles[k].el).removes,
                !.last = IF menu.last.step = "attached" /\ menu.last.by = k
                         THEN [menu.last EXCEPT !.step = "detached"]
                         ELSE [menu.last EXCEPT !.step = "none"]]
  /\ UNCHANGED <<doc, sel, headingLevels, stage, ev, ran, dispatched, parse, pre, prev,
                 nEvents, copied, arg, res, linkEdit>>

MenuNext ==
  \/ \E a \in MenuAdapters : \E el \in MenuElements : Attach(a, el)
  \/ \E k \in 1..MaxAttaches : Detach(k)

MenuSpec == MenuInit /\ [][MenuNext]_vars

(***************************************************************************)
(* Properties                                                              *)
(***************************************************************************)

\* Handler h has run for ev and returned r.
RanAs(h, r) == \E i \in 1..Len(ran) : ran[i] = [h |-> h, ret |-> r]

\* Handler h has run for ev.
Tried(h) == \E i \in 1..Len(ran) : ran[i].h = h

\* Handler h dispatched nothing for ev.
Silent(h) == \A i \in 1..Len(dispatched) : dispatched[i].by # h

\* The embed paste handler has run for the paste ev.
EmbedPasteRan == ev.type = "paste" /\ Tried("embedPaste")

\* The embed Enter handler has run for the keypress ev.
EmbedEnterRan == ev.type = "keydown" /\ ev.key = "Enter" /\ Tried("embedKey")

\* The clipboard's plain text is a bare URL the recognizer accepts.
BareUrlClip(clip) == clip.has /\ ~HasSpace(Trim(clip.plain)) /\ parseEmbedUrl(clip.plain).ok

\* s is a cursor.
IsCursor(s) == s.kind = "text" /\ s.anchor = s.head

\* s is a cursor in block i of d, a direct child of the document.
CursorInBlock(d, s, i) ==
  /\ IsCursor(s)
  /\ i \in 1..Len(d)
  /\ d[i].type \in TextblockTypes
  /\ Offset(d, i) < s.head
  /\ s.head < Offset(d, i) + NodeSize(d[i])

\* The top-level blocks of d that are paragraphs holding the cursor s.
CursorParagraphs(d, s) ==
  {i \in 1..Len(d) : CursorInBlock(d, s, i) /\ d[i].type = "paragraph"}

\* s is a cursor in a paragraph of d, at any depth, whose text satisfies Test.
CursorInParagraphWith(d, s, Test(_)) ==
  /\ IsCursor(s)
  /\ \E l \in Leaves(d) :
       /\ l.node.type = "paragraph"
       /\ l.before < s.head
       /\ s.head < l.after
       /\ Test(l.node.text)

HasText(t) == t # <<>>

HasInk(t) == Trim(t) # <<>>

\* d with block i replaced by the blocks new.
WithBlock(d, i, new) == SubSeq(d, 1, i - 1) \o new \o SubSeq(d, i + 1, Len(d))

\* Position pos of d has a blockquote, bulletList, orderedList or listItem around it:
\* it lies inside a top-level block of one of these types.
InsideQuoteOrList(d, pos) ==
  \E i \in 1..Len(d) :
     /\ d[i].type \in {"blockquote", "bulletList", "orderedList", "listItem"}
     /\ Offset(d, i) < pos
     /\ pos < Offset(d, i) + NodeSize(d[i])

\* Either end of the selection s has a quote, list or list item around it.
NestedEnd(d, s) ==
  InsideQuoteOrList(d, SelFrom(s)) \/ InsideQuoteOrList(d, SelTo(s))

\* The embed nodes of d, with their positions.
Embeds(d) == {l \in Leaves(d) : l.node.type = "embed"}

\* The embed the paste handler put at the start of the range it replaced.
PastedEmbed == (CHOOSE l \in Leaves(doc) : l.before = PasteFrom(pre.doc, pre.sel)).node

----------------------------------------------------------------------------

\* C1: after a paste that substituted an embed, the same paste repeated on the
\* state it left (same clipboard, the selection it left) substitutes nothing.
C1_RepeatedPasteSubstitutesNothing ==
  (prev.sub /\ EmbedPasteRan /\ ev.clip = prev.clip)
    => (RanAs("embedPaste", "false") /\ Silent("embedPaste"))

\* C2: a bare URL pasted with the cursor in an empty top-level paragraph replaces
\* that paragraph, and nothing else, with one embed carrying the recognizer's
\* embedUrl and provider, in one transaction, and the handler returns true.
C2_EmptyParagraphBecomesEmbed ==
  \A i \in 1..Len(pre.doc) :
    (EmbedPasteRan /\ BareUrlClip(ev.clip)
       /\ CursorInBlock(pre.doc, pre.sel, i) /\ pre.doc[i] = Para(<<>>))
      => LET parsed == parseEmbedUrl(ev.clip.plain)
         IN  /\ ran = <<[h |-> "embedPaste", ret |-> "true"]>>
             /\ Len(dispatched) = 1
             /\ Len(doc) = Len(pre.doc)
             /\ doc[i].type = "embed"
             /\ doc[i].src = parsed.embedUrl
             /\ doc[i].provider = parsed.provider
             /\ doc = WithBlock(pre.doc, i, <<doc[i]>>)

C2_Witness ==
  /\ EmbedPasteRan
  /\ BareUrlClip(ev.clip)
  /\ Len(pre.doc) = 2
  /\ CursorInBlock(pre.doc, pre.sel, 2)
  /\ pre.doc[2] = Para(<<>>)
  /\ pre.doc[1] = Para(<<"a">>)
  /\ doc[1] = Para(<<"a">>)
  /\ doc[2].type = "embed"
  /\ doc[2].src # Trim(ev.clip.plain)

\* C3 as stated: whatever the clipboard, a selection with an end inside a quote,
\* list or list item makes the embed paste handler, in either of its variants,
\* decline without dispatching.
C3_AsStated ==
  (EmbedPasteRan /\ NestedEnd(pre.doc, pre.sel))
    => /\ RanAs("embedPaste", "false")
       /\ Silent("embedPaste")
       /\ CaretHandlePaste(pre.doc, pre.sel, ev.clip) = Declined

\* C3: whatever the clipboard, the range variant of the embed paste handler
\* declines without dispatching when either end of the selection is inside a quote,
\* list or list item, and the caret variant declines when the selection's start is.
C3_NestedSelectionNeverEmbeds ==
  EmbedPasteRan
    => /\ NestedEnd(pre.doc, pre.sel)
            => (RanAs("embedPaste", "false") /\ Silent("embedPaste"))
       /\ InsideQuoteOrList(pre.doc, SelFrom(pre.sel))
            => CaretHandlePaste(pre.doc, pre.sel, ev.clip) = Declined

C3_Witness ==
  /\ EmbedPasteRan
  /\ BareUrlClip(ev.clip)
  /\ IsCursor(pre.sel)
  /\ InsideQuoteOrList(pre.doc, SelFrom(pre.sel))
  /\ ParentContentSize(pre.doc, Resolve(pre.doc, SelFrom(pre.sel))) = 0
  /\ RanAs("embedPaste", "false")
  /\ Embeds(doc) = {}

\* C4 as stated: a bare URL pasted with the cursor in a paragraph that contains text
\* makes the embed paste handler, in either of its variants, decline and leave the
\* document alone.
C4_AsStated ==
  (EmbedPasteRan /\ BareUrlClip(ev.clip) /\ CursorInParagraphWith(pre.doc, pre.sel, HasText))
    => /\ RanAs("embedPaste", "false")
       /\ Silent("embedPaste")
       /\ CaretHandlePaste(pre.doc, pre.sel, ev.clip) = Declined

\* C4: a bare URL pasted with the cursor in a paragraph that contains text other
\* than white space makes the embed paste handler, in either of its variants,
\* decline and leave the document alone; the range variant also declines when the
\* text is white space only.
C4_ParagraphWithTextNeverEmbeds ==
  (EmbedPasteRan /\ BareUrlClip(ev.clip))
    => /\ CursorInParagraphWith(pre.doc, pre.sel, HasText)
            => (RanAs("embedPaste", "false") /\ Silent("embedPaste"))
       /\ CursorInParagraphWith(pre.doc, pre.sel, HasInk)
            => CaretHandlePaste(pre.doc, pre.sel, ev.clip) = Declined

C4_Witness ==
  /\ EmbedPasteRan
  /\ BareUrlClip(ev.clip)
  /\ CursorInBlock(pre.doc, pre.sel, 1)
  /\ pre.doc[1] = Para(<<"a">>)
  /\ RanAs("embedPaste", "false")
  /\ Silent("embedPaste")
  /\ stage = "idle"

\* The paste handlers in the order the editor calls them.
PasteChain == <<"embedPaste", "markdownPaste", "defaultPaste">>

\* C5: the paste rules run in the order embed, markdown, default, and none runs
\* after one that consumed the event; a bare URL that also reads as markdown, pasted
\* without HTML into an empty top-level paragraph, ends as the embed substitution
\* alone, the markdown handler never running.
C5_FirstConsumerWins ==
  ev.type = "paste"
    => /\ Len(ran) <= Len(PasteChain)
       /\ \A i \in 1..Len(ran) : ran[i].h = PasteChain[i]
       /\ \A i \in 1..(Len(ran) - 1) : ran[i].ret = "false"
       /\ \A i \in 1..Len(pre.doc) :
            ( /\ stage = "idle"
              /\ BareUrlClip(ev.clip)
              /\ looksLikeMarkdown(Trim(ev.clip.plain))
              /\ ev.clip.html = NoHtml
              /\ CursorInBlock(pre.doc, pre.sel, i)
              /\ pre.doc[i] = Para(<<>>) )
              => /\ ran = <<[h |-> "embedPaste", ret |-> "true"]>>
                 /\ Silent("markdownPaste")
                 /\ Len(dispatched) = 1
                 /\ doc[i].type = "embed"
                 /\ doc = WithBlock(pre.doc, i, <<doc[i]>>)

C5_Witness ==
  /\ ev.type = "paste"
  /\ stage = "idle"
  /\ BareUrlClip(ev.clip)
  /\ looksLikeMarkdown(Trim(ev.clip.plain))
  /\ \E p \in ParseOutcomes :
       MarkdownHandlePaste(pre.doc, pre.sel, ev.clip, p, headingLevels).ret = "true"
  /\ ran = <<[h |-> "embedPaste", ret |-> "true"]>>

\* C6: Enter with the selection starting at position zero puts a new empty paragraph
\* first in the document, the cursor in it, and the handler returns true.
C6_EnterAtStartOpensParagraph ==
  (EmbedEnterRan /\ SelFrom(pre.sel) = 0)
    => /\ RanAs("embedKey", "true")
       /\ doc = <<Para(<<>>)>> \o pre.doc
       /\ sel = TextSel(1, 1)

\* The text Enter tests: that of the block around the cursor, trimmed.
EnterText == Trim(ParentText(pre.doc, Resolve(pre.doc, SelFrom(pre.sel))))

\* C7: Enter with the cursor in a top-level paragraph whose trimmed text is a URL the
\* recognizer accepts replaces that paragraph by an embed and a new empty paragraph
\* after it, puts the cursor in the new paragraph, leaves the other blocks alone and
\* returns true; with the trimmed text empty or not such a URL, or with the cursor
\* in a nested block, the handler returns false and dispatches nothing.
C7_EnterOnUrlParagraph ==
  (EmbedEnterRan /\ IsCursor(pre.sel) /\ SelFrom(pre.sel) # 0)
    => /\ \A i \in CursorParagraphs(pre.doc, pre.sel) :
            parseEmbedUrl(EnterText).ok
              => /\ ran = <<[h |-> "embedKey", ret |-> "true"]>>
                 /\ Len(doc) = Len(pre.doc) + 1
                 /\ doc[i].type = "embed"
                 /\ doc[i].src = parseEmbedUrl(EnterText).embedUrl
                 /\ doc[i].provider = parseEmbedUrl(EnterText).provider
                 /\ doc = WithBlock(pre.doc, i, <<doc[i], Para(<<>>)>>)
                 /\ sel = TextSel(Offset(doc, i + 1) + 1, Offset(doc, i + 1) + 1)
       /\ ( \/ EnterText = <<>>
            \/ ~parseEmbedUrl(EnterText).ok
            \/ InsideQuoteOrList(pre.doc, SelFrom(pre.sel)) )
            => /\ RanAs("embedKey", "false")
               /\ Silent("embedKey")

C7_Witness ==
  /\ EmbedEnterRan
  /\ Len(pre.doc) = 2
  /\ CursorParagraphs(pre.doc, pre.sel) = {1}
  /\ parseEmbedUrl(EnterText).ok
  /\ EnterText # pre.doc[1].text
  /\ RanAs("embedKey", "true")
  /\ Len(dispatched) = 2
  /\ doc[3] = pre.doc[2]

\* C8: no handler lets a fault escape: each one run returns true or false (the
\* listeners outside the chain return nothing), never throws.
C8_NoFaultEscapes ==
  \A i \in 1..Len(ran) : ran[i].ret # "fault"

\* The embeds of d that are not embeds of the document ev found.
NewEmbeds(d) == {l.node : l \in Embeds(d)} \ {l.node : l \in Embeds(pre.doc)}

\* C9: with a candidate the recognizer answers null for, the paste handler and the
\* Enter handler return false and dispatch nothing, and the edit panel and the
\* insert button leave the document as it was: no embed made, none changed.
C9_NullParseChangesNothing ==
  /\ (EmbedPasteRan /\ ev.clip.has /\ PasteText(ev.clip) # <<>>
        /\ ~parseEmbedUrl(UrlToEmbed(PasteText(ev.clip))).ok)
       => (RanAs("embedPaste", "false") /\ Silent("embedPaste"))
  /\ (EmbedEnterRan /\ SelFrom(pre.sel) # 0 /\ EnterText # <<>>
        /\ ~InsideQuoteOrList(pre.doc, SelFrom(pre.sel))
        /\ ~parseEmbedUrl(EnterText).ok)
       => (RanAs("embedKey", "false") /\ Silent("embedKey"))
  /\ (ev.type = "embedEdit" /\ ~parseEmbedUrl(ev.input).ok)
       => (doc = pre.doc /\ dispatched = <<>>)
  /\ (ev.type = "insertEmbed" /\ ev.input # Null /\ ~parseEmbedUrl(ev.input).ok)
       => (doc = pre.doc /\ dispatched = <<>>)

C9_Witness ==
  /\ EmbedPasteRan
  /\ URL_PATTERN(Trim(ev.clip.plain))
  /\ ~parseEmbedUrl(ev.clip.plain).ok
  /\ CursorParagraphs(pre.doc, pre.sel) # {}
  /\ ParentContentSize(pre.doc, Resolve(pre.doc, SelFrom(pre.sel))) = 0
  /\ RanAs("embedPaste", "false")
  /\ NewEmbeds(doc) = {}

\* The text that was pasted: the trimmed plain text, or, the clipboard holding
\* none, the link its HTML carries.
PastedText(clip) ==
  IF Trim(clip.plain) # <<>> THEN Trim(clip.plain) ELSE extractUrlFromHtml(clip.html)

RECURSIVE HeadingLevelsOf(_)

\* The levels of the headings of ks at every depth, in document order.
HeadingLevelsOf(ks) ==
  IF ks = <<>> THEN <<>>
  ELSE (IF Head(ks).type = "heading" THEN <<Head(ks).level>> ELSE <<>>)
         \o HeadingLevelsOf(Head(ks).kids) \o HeadingLevelsOf(Tail(ks))

\* normalizeDocHeadingLevels has run on the document.
Normalized == stage \in {"idle", "again"}

\* C11: once normalizeDocHeadingLevels has run on a document under a non-empty
\* list of allowed levels, every heading of the document, at any depth, has a level
\* of that list.
C11_EveryHeadingAllowed ==
  (Normalized /\ headingLevels # <<>>)
    => \A l \in SeqRange(HeadingLevelsOf(doc)) : l \in SeqRange(headingLevels)

\* C12: a second call of normalizeDocHeadingLevels finds no heading below the
\* minimum, dispatches no transaction and leaves the document and the selection as
\* the first call left them.
C12_SecondNormalizeChangesNothing ==
  stage = "again"
    => /\ \A i \in 1..Len(dispatched) : dispatched[i].by # "again"
       /\ doc = pre.doc
       /\ sel = pre.sel
       /\ \A l \in SeqRange(HeadingLevelsOf(doc)) :
            l >= (IF headingLevels = <<>> THEN 1 ELSE SetMin(SeqRange(headingLevels)))

\* The second call follows a first call that raised two headings, one of them
\* nested.
C12_Witness ==
  /\ stage = "again"
  /\ Len(dispatched) = 1
  /\ dispatched[1].by = "init"
  /\ headingLevels # <<>>
  /\ \E i \in 1..Len(doc) : doc[i].type = "blockquote"
  /\ Len(HeadingLevelsOf(doc)) = 2
  /\ \A l \in SeqRange(HeadingLevelsOf(doc)) : l = SetMin(SeqRange(headingLevels))

(***************************************************************************)
(* Markdown paste and copy                                                 *)
(***************************************************************************)

\* The markdown paste handler has run for the paste ev.
MarkdownPasteRan == ev.type = "paste" /\ Tried("markdownPaste")

\* The clipboard has no text/html beyond white space, and its trimmed text/plain is
\* non-empty and reads as markdown.
MarkdownOnly(clip) ==
  /\ clip.has
  /\ clip.html.raw \in {"empty", "blank"}
  /\ Trim(clip.plain) # <<>>
  /\ looksLikeMarkdown(Trim(clip.plain))

\* C13: the markdown paste handler returns true only for a clipboard that has no
\* text/html and whose trimmed text/plain is non-empty and reads as markdown; for
\* every other clipboard it returns false and changes nothing.
C13_ConsumesMarkdownOnly ==
  MarkdownPasteRan
    => /\ RanAs("markdownPaste", "true") => MarkdownOnly(ev.clip)
       /\ ~MarkdownOnly(ev.clip)
            => (RanAs("markdownPaste", "false") /\ Silent("markdownPaste") /\ doc = pre.doc)

\* A markdown clipboard was consumed and its parsed content inserted.
C13_Witness ==
  /\ MarkdownPasteRan
  /\ ev.clip = Clip(MARKDOWN, NoHtml)
  /\ RanAs("markdownPaste", "true")
  /\ ~Silent("markdownPaste")
  /\ doc # pre.doc

\* ev is a copy event that found something selected.
CopyOfSelection == ev.type = "copy" /\ SelFrom(pre.sel) # SelTo(pre.sel)

\* ev is a copy event that found nothing selected.
CopyOfNothing == ev.type = "copy" /\ SelFrom(pre.sel) = SelTo(pre.sel)

\* C15: a copy with a non-empty selection sets the clipboard's text/plain to the
\* sanitized serialization of the selection and sets no other type, suppresses the
\* default copy, returns true, and leaves the document and the selection as they
\* were.
C15_CopyWritesSanitizedMarkdown ==
  CopyOfSelection
    => /\ copied.ret = "true"
       /\ copied.prevented
       /\ copied.written = <<[type |-> "text/plain", data |-> cleanupMarkdownOutput(ev.input)]>>
       /\ doc = pre.doc
       /\ sel = pre.sel
       /\ dispatched = <<>>

\* A selection across two blocks was copied and the sanitizer changed what the
\* serializer gave.
C15_Witness ==
  /\ CopyOfSelection
  /\ pre.sel.kind = "text"
  /\ Len(pre.doc) = 2
  /\ SelFrom(pre.sel) < NodeSize(pre.doc[1])
  /\ SelTo(pre.sel) > NodeSize(pre.doc[1])
  /\ copied.ret = "true"
  /\ copied.written[1].data # ev.input
  /\ copied.written[1].data = <<97, 10, 10, 97>>

\* C16: a copy with an empty selection returns false, does not suppress the default
\* copy, and neither clears nor writes the clipboard.
C16_CopyOfNothingDeclines ==
  CopyOfNothing
    => /\ copied.ret = "false"
       /\ ~copied.prevented
       /\ ~copied.cleared
       /\ copied.written = <<>>
       /\ ran = <<[h |-> "markdownCopy", ret |-> "false"]>>
       /\ doc = pre.doc
       /\ sel = pre.sel

\* A copy with the cursor in a paragraph that has text.
C16_Witness ==
  /\ CopyOfNothing
  /\ CursorInParagraphWith(pre.doc, pre.sel, HasText)
  /\ copied = NoCopy
  /\ ran = <<[h |-> "markdownCopy", ret |-> "false"]>>

(***************************************************************************)
(* The heading clamp                                                       *)
(***************************************************************************)

\* fn has been called with arg and has returned res.
Called(fn) == stage = "returned" /\ arg.fn = fn

IsAscending(q) == \A i \in 1..(Len(q) - 1) : q[i] < q[i + 1]

RECURSIVE Unleveled(_)

\* ks with the level of every heading, at every depth, blanked.
Unleveled(ks) ==
  [i \in 1..Len(ks) |-> [ks[i] EXCEPT !.level = 0, !.kids = Unleveled(ks[i].kids)]]

\* C14: normalizeHeadingLevelsInContent, given a non-empty list of allowed levels,
\* leaves every heading of the tree, at every depth, with the clamp of its old
\* level, which is a level of the list, and changes nothing else.
C14_EveryParsedHeadingClamped ==
  (Called("normalizeHeadingLevelsInContent") /\ arg.allowed # <<>>)
    => LET before == HeadingLevelsOf(arg.content)
           after  == HeadingLevelsOf(res)
       IN  /\ Len(after) = Len(before)
           /\ \A i \in 1..Len(after) :
                /\ after[i] \in SeqRange(arg.allowed)
                /\ after[i] = clampHeadingLevel(before[i], arg.allowed)
           /\ Unleveled(res) = Unleveled(arg.content)

\* A heading in a gap at depth 0 and one above the maximum at depth 1 were clamped.
C14_Witness ==
  /\ Called("normalizeHeadingLevelsInContent")
  /\ arg.allowed = <<2, 4>>
  /\ HeadingLevelsOf(arg.content) = <<3, 5>>
  /\ arg.content[2].type = "blockquote"
  /\ HeadingLevelsOf(res) = <<2, 4>>

\* C17: for an ascending non-empty list of allowed levels clampHeadingLevel returns
\* the level itself if it is allowed, and otherwise an allowed level at the least
\* distance from it, the smaller of two at the same distance; for the levels 2..6
\* that is the level itself from 2 to 6, 2 below 2 and 6 above 6.
C17_ClampIsNearestAllowed ==
  (Called("clampHeadingLevel") /\ arg.allowed # <<>> /\ IsAscending(arg.allowed))
    => /\ res \in SeqRange(arg.allowed)
       /\ arg.level \in SeqRange(arg.allowed) => res = arg.level
       /\ \A a \in SeqRange(arg.allowed) :
            /\ Abs(res - arg.level) <= Abs(a - arg.level)
            /\ Abs(res - arg.level) = Abs(a - arg.level) => res <= a
       /\ arg.allowed = <<2, 3, 4, 5, 6>>
            => res = (IF arg.level < 2 THEN 2 ELSE IF arg.level > 6 THEN 6 ELSE arg.level)

\* A level midway between two allowed ones went to the smaller.
C17_Witness ==
  /\ Called("clampHeadingLevel")
  /\ arg.allowed = <<2, 4, 6>>
  /\ arg.level = 5
  /\ res = 4

(***************************************************************************)
(* The text sanitizer                                                      *)
(***************************************************************************)

IsLead(u) == u >= 55296 /\ u <= 56319

IsTrail(u) == u >= 56320 /\ u <= 57343

\* cp lies in an allowed range and is not on the deny list.
SafeCodePoint(cp) ==
  /\ cp # 8215
  /\ \E r \in SAFE_TEXT_RANGES : r[1] <= cp /\ cp <= r[2]

RECURSIVE IsSubsequence(_, _)

\* a is what is left of b after some of its members are dropped.
IsSubsequence(a, b) ==
  IF a = <<>> THEN TRUE
  ELSE IF b = <<>> THEN FALSE
  ELSE IF Head(a) = Head(b) THEN IsSubsequence(Tail(a), Tail(b))
  ELSE IsSubsequence(a, Tail(b))

RECURSIVE SurrogatePairs(_)

\* The lead-and-trail pairs of neighbouring units in t, in order.
SurrogatePairs(t) ==
  IF Len(t) < 2 THEN <<>>
  ELSE IF IsLead(t[1]) /\ IsTrail(t[2])
       THEN << <<t[1], t[2]>> >> \o SurrogatePairs(SubSeq(t, 3, Len(t)))
       ELSE SurrogatePairs(Tail(t))

\* C18: cleanupMarkdownOutput applied to its own output returns that output, for
\* every input: lone surrogates, disallowed pairs, combining marks, deny-listed
\* characters and lines of nothing but no-break spaces or their entity included.
C18_CleanupIsIdempotent ==
  Called("cleanupMarkdownOutput") => cleanupMarkdownOutput(res) = res

\* A lone lead and a lone trail with a combining mark between them: all three go.
C18_Witness ==
  /\ Called("cleanupMarkdownOutput")
  /\ Len(arg.text) = 3
  /\ IsLead(arg.text[1])
  /\ arg.text[2] = 768
  /\ IsTrail(arg.text[3])
  /\ res = <<>>
  /\ cleanupMarkdownOutput(res) = <<>>

\* C19: the output of filterToSafeText is what is left of the input after units are
\* dropped; each of its units is an allowed character that is not deny-listed, or
\* one half of a surrogate pair that stood together in the input and encodes an
\* allowed code point; no surrogate stands in it without its other half.
C19_FilterKeepsOnlySafeText ==
  Called("filterToSafeText")
    => /\ IsSubsequence(res, arg.text)
       /\ IsSubsequence(SurrogatePairs(res), SurrogatePairs(arg.text))
       /\ \A i \in 1..Len(res) :
            IF IsLead(res[i])
            THEN /\ i < Len(res)
                 /\ IsTrail(res[i + 1])
                 /\ SafeCodePoint((res[i] - 55296) * 1024 + (res[i + 1] - 56320) + 65536)
            ELSE IF IsTrail(res[i])
            THEN i > 1 /\ IsLead(res[i - 1])
            ELSE SafeCodePoint(res[i])

\* A lone lead before an emoji: the lead goes, the pair stays whole.
C19_Witness ==
  /\ Called("filterToSafeText")
  /\ arg.text = <<55296, 55357, 56832>>
  /\ res = <<55357, 56832>>

\* C20: a non-blank line, then one or more blank lines (empty, white space, no-break
\* spaces or their entity), then a non-blank line come out as the two non-blank
\* lines, unchanged and in order, with exactly one empty line between them.
C20_BlankRunBecomesOneLine ==
  Called("cleanupMarkdownOutput")
    => LET ls == SplitLines(filterToSafeText(arg.text))
           n  == Len(ls)
       IN  (/\ n >= 3
            /\ ~isBlankLine(ls[1])
            /\ ~isBlankLine(ls[n])
            /\ \A i \in 2..(n - 1) : isBlankLine(ls[i]))
             => res = ls[1] \o <<10, 10>> \o ls[n]

\* Two blank lines, a no-break space and an entity, between two lines with a
\* letter.
C20_Witness ==
  /\ Called("cleanupMarkdownOutput")
  /\ SplitLines(arg.text) = << <<97>>, <<160>>, NBSP_ENTITY, <<97, 160>> >>
  /\ res = <<97, 10, 10, 97, 160>>

(***************************************************************************)
(* Rendering and recognition                                               *)
(***************************************************************************)

\* The number of places at which p occurs in t.
Occurrences(t, p) == Cardinality({i \in 1..Len(t) : StartsWithAt(t, i, p)})

C22_OnlyBareHttpUrlsParse ==
  Called("parseEmbedUrl")
    => LET raw == Trim(arg.str)
       IN  /\ (\/ raw = <<>>
               \/ \E i \in 1..Len(raw) : raw[i] \in {" ", "\n", "\t", "\r"}
               \/ /\ ~StartsWithAt(raw, 1, <<"h", "t", "t", "p", ":", "/", "/">>)
                  /\ ~StartsWithAt(raw, 1, <<"h", "t", "t", "p", "s", ":", "/", "/">>))
                => ~res.ok
           /\ res.ok
                => /\ res.provider = "generic"
                   /\ \/ StartsWithAt(res.embedUrl, 1, <<"h", "t", "t", "p", ":", "/", "/">>)
                      \/ StartsWithAt(res.embedUrl, 1, <<"h", "t", "t", "p", "s", ":", "/", "/">>)

\* A URL followed by prose is turned down.
C22_Witness ==
  /\ Called("parseEmbedUrl")
  /\ arg.str = <<" ">> \o HTTPS_SLASHES \o <<"a", " ", "a", "\n">>
  /\ ~res.ok

(***************************************************************************)
(* Transactions                                                            *)
(***************************************************************************)

\* The handlers of the paste and key chains that belong to this repository.
ChainHandlers == {"embedPaste", "markdownPaste", "embedKey"}

\* The state an observer saw before the one dispatched[i] shows.
SeenBefore(i) ==
  IF i = 1 THEN pre ELSE [doc |-> dispatched[i - 1].doc, sel |-> dispatched[i - 1].sel]

\* Where the top-level block that held the selection's start begins.
EnterBlockStart ==
  LET i == CHOOSE k \in 1..Len(pre.doc) :
             /\ Offset(pre.doc, k) < SelFrom(pre.sel)
             /\ SelFrom(pre.sel) < Offset(pre.doc, k) + NodeSize(pre.doc[k])
  IN  Offset(pre.doc, i)

\* C23: a paste or a keypress that a handler consumed changed the document in
\* exactly one dispatched transaction: every state an observer saw for the event
\* has the document as the event left it, and for the Enter rule the embed is never
\* seen without the empty paragraph after it.
C23_OneTransactionPerEvent ==
  \A h \in ChainHandlers :
     RanAs(h, "true")
       => /\ dispatched # <<>>
          /\ \A i \in 1..Len(dispatched) : dispatched[i].by = h /\ dispatched[i].doc = doc
          /\ Cardinality({i \in 1..Len(dispatched) : dispatched[i].doc # SeenBefore(i).doc}) <= 1
          /\ h = "embedKey"
               => \A i \in 1..Len(dispatched) :
                    \A l \in Leaves(dispatched[i].doc) :
                       (l.node.type = "embed" /\ l.before = EnterBlockStart)
                         => \E m \in Leaves(dispatched[i].doc) :
                              m.before = l.after /\ m.node = Para(<<>>)

\* Enter on a paragraph that is a URL: two transactions were seen, the first with
\* the embed and its paragraph together, the second moving only the selection.
C23_Witness ==
  /\ RanAs("embedKey", "true")
  /\ Len(dispatched) = 2
  /\ dispatched[1].doc # pre.doc
  /\ dispatched[2].doc = dispatched[1].doc
  /\ dispatched[2].sel # dispatched[1].sel
  /\ \E l \in Leaves(doc) :
       /\ l.node.type = "embed"
       /\ l.before = EnterBlockStart
       /\ \E m \in Leaves(doc) : m.before = l.after /\ m.node = Para(<<>>)

(***************************************************************************)
(* The heading normalizer, call by call                                    *)
(***************************************************************************)

\* The least allowed level, 1 when none is configured.
MinAllowed == IF headingLevels = <<>> THEN 1 ELSE SetMin(SeqRange(headingLevels))

\* The call of normalizeDocHeadingLevels that ran last.
LastNormalize == IF stage = "again" THEN "again" ELSE "init"

\* The positions of the headings the last call found below the minimum.
FoundBelow ==
  {l.before : l \in {m \in Leaves(pre.doc) : m.node.type = "heading" /\ m.node.level < MinAllowed}}

\* C24: a call of normalizeDocHeadingLevels collects the headings below the
\* minimum, rewrites them from the last position to the first, each at a position
\* where the document as rewritten so far still has such a heading, and dispatches
\* the rewrites as one transaction, or none when there is nothing to rewrite.
C24_OneTransactionDescending ==
  Normalized
    => LET mine  == {i \in 1..Len(dispatched) : dispatched[i].by = LastNormalize}
           order == SortDescending(HeadingsBelow(pre.doc, 0, MinAllowed))
       IN  /\ Cardinality(mine) = (IF FoundBelow = {} THEN 0 ELSE 1)
           /\ \A i \in mine : dispatched[i].doc = doc
           /\ SeqRange(order) = FoundBelow
           /\ Len(order) = Cardinality(FoundBelow)
           /\ \A k \in 1..(Len(order) - 1) : order[k] > order[k + 1]
           /\ \A k \in 1..Len(order) :
                \E l \in Leaves(ApplyLevelUpdates(pre.doc, SubSeq(order, 1, k - 1), MinAllowed)) :
                   /\ l.before = order[k]
                   /\ l.node.type = "heading"
                   /\ l.node.level < MinAllowed

\* Two headings below the minimum, one of them in a quote, rewritten at once.
C24_Witness ==
  /\ stage = "idle"
  /\ Cardinality(FoundBelow) = 2
  /\ \E i \in 1..Len(pre.doc) : pre.doc[i].type = "blockquote"
  /\ Len(dispatched) = 1
  /\ HeadingLevelsOf(doc) = <<MinAllowed, MinAllowed>>

BlocksInRange ==
  {k \in 1..Len(pre.doc) :
     /\ Offset(pre.doc, k) < SelTo(pre.sel)
     /\ Offset(pre.doc, k) + NodeSize(pre.doc[k]) > SelFrom(pre.sel)}

\* pre.sel runs from inside one top-level textblock to inside a later one.
SpansBlocks ==
  /\ pre.sel.kind = "text"
  /\ Cardinality(BlocksInRange) >= 2
  /\ pre.doc[SetMin(BlocksInRange)].type \in TextblockTypes
  /\ pre.doc[SetMax(BlocksInRange)].type \in TextblockTypes

\* Block b has text, or nodes inside it.
HasContent(b) == b.text # <<>> \/ b.kids # <<>>

\* C26: a paste over a selection that spans several top-level blocks puts an embed
\* in only if every block of the range is empty, and then the one embed stands for
\* all of them; if a block of the range has text or nested content, the embed paste
\* handler returns false and dispatches nothing.
C26_RangeReplacedOnlyIfEmpty ==
  (EmbedPasteRan /\ SpansBlocks)
    => /\ RanAs("embedPaste", "true")
            => /\ \A k \in BlocksInRange : ~HasContent(pre.doc[k])
               /\ Len(doc) = Len(pre.doc) - Cardinality(BlocksInRange) + 1
               /\ doc[SetMin(BlocksInRange)].type = "embed"
               /\ \A k \in 1..Len(pre.doc) :
                    /\ k < SetMin(BlocksInRange) => doc[k] = pre.doc[k]
                    /\ k > SetMax(BlocksInRange)
                         => doc[k - Cardinality(BlocksInRange) + 1] = pre.doc[k]
       /\ (\E k \in BlocksInRange : HasContent(pre.doc[k]))
            => (RanAs("embedPaste", "false") /\ Silent("embedPaste"))

\* Two empty paragraphs selected together and a URL pasted: one embed is left.
C26_Witness ==
  /\ EmbedPasteRan
  /\ SpansBlocks
  /\ BareUrlClip(ev.clip)
  /\ pre.doc = <<Para(<<>>), Para(<<>>)>>
  /\ RanAs("embedPaste", "true")
  /\ Len(doc) = 1
  /\ doc[1].type = "embed"

\* The embeds and rules of d, with their positions.
Atoms(d) == {l \in Leaves(d) : l.node.type \in AtomTypes}

\* C27: every embed or other atom that is in the document before a paste is in it
\* after the embed paste handler has put its embed in: the document has one atom
\* more than before.
C27_AtomsSurvivePaste ==
  (EmbedPasteRan /\ RanAs("embedPaste", "true"))
    => Cardinality(Atoms(doc)) = Cardinality(Atoms(pre.doc)) + 1

\* C28: the embed paste handler, the Enter handler and the markdown paste handler
\* dispatch nothing when they return false; an event every handler declined finds
\* the document and the selection as they were.
C28_DeclinedMeansUntouched ==
  /\ \A h \in ChainHandlers : RanAs(h, "false") => Silent(h)
  /\ (ev.type \in {"paste", "keydown"} /\ \A i \in 1..Len(ran) : ran[i].ret \in {"false", "void"})
       => (dispatched = <<>> /\ doc = pre.doc /\ sel = pre.sel)

\* A URL pasted into a paragraph that has text: both paste handlers declined.
C28_Witness ==
  /\ ev.type = "paste"
  /\ BareUrlClip(ev.clip)
  /\ CursorInParagraphWith(pre.doc, pre.sel, HasText)
  /\ RanAs("embedPaste", "false")
  /\ RanAs("markdownPaste", "false")
  /\ doc = pre.doc
  /\ sel = pre.sel

\* C29: every embed of the document has a src, and its src and provider are what
\* parseEmbedUrl makes of its originalUrl; an edit-panel commit leaves the document
\* as it was or gives the embed it changes all three attributes from the text
\* committed.
C29_EmbedAttributesAgree ==
  /\ \A l \in Embeds(doc) :
       /\ l.node.src # Null
       /\ parseEmbedUrl(l.node.originalUrl).ok
       /\ l.node.src = parseEmbedUrl(l.node.originalUrl).embedUrl
       /\ l.node.provider = parseEmbedUrl(l.node.originalUrl).provider
  /\ ev.type = "embedEdit"
       => \/ doc = pre.doc
          \/ \A l \in Leaves(doc) \ Leaves(pre.doc) :
               l.node = EmbedNode(parseEmbedUrl(ev.input).embedUrl, "generic", Trim(ev.input))

\* An embed made by a paste gets another URL through the edit panel.
C29_Witness ==
  /\ ev.type = "embedEdit"
  /\ doc # pre.doc
  /\ Trim(ev.input) = U
  /\ \E l \in Embeds(doc) :
       /\ l.node.originalUrl = U
       /\ l.node.src = U \o <<"/">>
       /\ \E m \in Embeds(pre.doc) : m.before = l.before /\ m.node.originalUrl # U

(***************************************************************************)
(* The link edit panel                                                     *)
(***************************************************************************)

\* C30: while the selection stays inside a link the listener extends it to the link
\* at most once: only the first run of a selection update extends, and only when it
\* found a collapsed cursor and the panel hidden; the run the extension itself
\* sets off finds the panel visible, extends nothing and is the last one.
C30_ExtendsOncePerVisit ==
  /\ linkEdit.extensions <= 1
  /\ Len(linkEdit.calls) <= 2
  /\ \A i \in 1..Len(linkEdit.calls) :
       linkEdit.calls[i].extended
         => (i = 1 /\ linkEdit.calls[i].collapsed /\ ~linkEdit.calls[i].wasVisible)
  /\ Len(linkEdit.calls) = 2
       => /\ linkEdit.calls[1].extended
          /\ linkEdit.calls[2].wasVisible
          /\ ~linkEdit.calls[2].extended
          /\ linkEdit.from = linkEdit.ls - 1
          /\ linkEdit.to = linkEdit.le

\* The cursor moved inside the link after the one extension: nothing extended.
C30_Witness ==
  /\ linkEdit.extensions = 1
  /\ linkEdit.shown
  /\ linkEdit.from = linkEdit.to
  /\ Len(linkEdit.calls) = 1
  /\ linkEdit.calls[1].wasVisible
  /\ linkEdit.calls[1].collapsed
  /\ ~linkEdit.calls[1].extended

(***************************************************************************)
(* The menu adapters                                                       *)
(***************************************************************************)

\* C31: when attach has been called and then the detach function it returned, no
\* listener that this attach registered is registered any more, and the registered
\* listeners are the ones that were registered before attach.
C31_DetachUndoesAttach ==
  menu.last.step = "detached"
    => /\ \A l \in menu.listeners : l.by # menu.last.by
       /\ menu.listeners = menu.last.before

\* The same, of attachLinkEditMenu alone.
LinkMenuDetachUndoesAttach ==
  (menu.last.step = "detached" /\ menu.handles[menu.last.by].adapter = "linkEdit")
    => menu.listeners = menu.last.before

\* attachLinkEditMenu registered its seven listeners and its detach removed them.
LinkMenuDetached ==
  /\ menu.last.step = "detached"
  /\ menu.handles[menu.last.by].adapter = "linkEdit"
  /\ menu.handles[menu.last.by].el.url
  /\ menu.handles[menu.last.by].el.label


====
